---- MODULE Spec2Model ----
(***************************************************************************)
(* A model of the page actions, the orchestration loop, the parsers and    *)
(* the persisted state of the repository:                                  *)
(*   casino.py          safe_click, wait_for_clickable, claim_daily_bonus, *)
(*                      accept_or_close_modals, login_action,              *)
(*                      get_casino_account_state, url_to_env_prefix,       *)
(*                      get_credentials, gaussian_random_delay             *)
(*   luckybird.py       luckybird_action                                   *)
(*   scrapling_pick.py  get_balance, bet_and_start_auto, play_keno, main,  *)
(*                      login_page_make, get_credentials,                  *)
(*                      parse_account_state_page, parse_account_state_res, *)
(*                      Pick, pick_to_dict_json_safe, json_to_pick         *)
(* Every page operation is a call into the browser whose outcome the code  *)
(* does not control: the model draws each outcome (returned value or       *)
(* raised error) from the set of outcomes the call can have.               *)
(***************************************************************************)
EXTENDS Integers, Sequences, FiniteSets, TLC

VARIABLES
    \* ---- safe_click (casino.py 600-657)
    scPc,          \* position in safe_click
    scN,           \* max_retries
    scForce,       \* force
    scScroll,      \* scroll_into_view
    scAttempt,     \* the loop variable `attempt` (0-based)
    scChecks,      \* number of wait_for_clickable calls made
    scClickable,   \* TRUE once some wait_for_clickable call returned True
    scWaited,      \* this attempt: locator.wait_for(state="visible") returned
    scEnabled,     \* this attempt: locator.is_disabled() returned False
    scScrolled,    \* this attempt: scroll_into_view_if_needed was called
    scClickLog,    \* one record per page.click call, in order
    scSleeps,      \* completed page.wait_for_timeout durations, in order
    scSleepCalls,  \* number of page.wait_for_timeout calls (completed or raised)
    scResult,      \* "none" | "true" | "false" | "raised"
    \* ---- claim_daily_bonus (casino.py 263-289, stake_us.py 66-98)
    cbPc,          \* position in claim_daily_bonus
    cbCall,        \* number of invocations started so far
    cbOpenOk,      \* this invocation: the open-modal click returned
    cbTabOk,       \* this invocation: the tab click returned
    cbDisabled,    \* this invocation: what claim_btn.is_disabled() returned
    cbClaimClicks, \* this invocation: claim_btn.click calls
    cbClaimed,     \* this invocation: claim_btn.click returned
    cbLogged,      \* this invocation: the except clause logged an error
    cbPending,     \* an exception the except clause did not catch, or "none"
    cbCloseQueries,\* this invocation: close_btn.count() calls
    cbCloseCount,  \* this invocation: what close_btn.count() returned, else -1
    cbCloseClicks, \* this invocation: close_btn.click calls
    cbRaised,      \* the invocation ended by raising
    cbTotalClaims, \* completed claim clicks over all invocations
    \* ---- accept_or_close_modals (casino.py 435-503)
    amPc,          \* position in accept_or_close_modals
    amN,           \* the loop counter n
    amClaimed,     \* the local `claimed`
    amText,        \* button_text of the candidate of this iteration
    amProcessed,   \* candidates whose text was read so far
    amClickedTexts,\* texts of the candidates button.click was called on
    amAltCount,    \* this iteration: close_buttons.count() result, else -1
    amAltClicks,   \* this iteration: close_button.click calls (485)
    amCloseQueries,\* close_button.count() calls of the final close step
    amCloseClicks, \* close_button.click calls of the final close step
    amResult,      \* "none" | "true" | "false"
    \* ---- play_keno (scrapling_pick.py 225-253)
    kPc,           \* position in play_keno
    kWager,        \* wager_amount, in units of 10^-10
    kIter,         \* iterations of the polling loop started so far
    kObs,          \* balance read by this iteration, in units of 10^-8
    kObsWager,     \* wager_amount the balance was compared with
    kDid,          \* what this iteration did: "none" | "rebet" | "exit" | "keep"
    kClosed,       \* page.close() was called
    kEnd,          \* how play_keno ended: "none" | "returned" | "raised"
    \* ---- main (scrapling_pick.py 855-951)
    mPc,           \* position in main
    mQueue,        \* the list `picks` (sites still to process)
    mFinished,     \* the list `finished_picks`
    mPick,         \* the local `pick`, "none" outside an iteration
    mMissing,      \* sites whose <PREFIX>_USERNAME or _PASSWORD is unset
    mOAuth,        \* use_google_oauth
    mSkipClaim,    \* skip_claim
    mPlayKeno,     \* play_keno
    mOpen,         \* number of StealthySessions open
    mLoginClicks,  \* selectors the login action of this iteration clicked
    mAttempted,    \* claim_attempted["value"] of this iteration
    mResponses,    \* <<site, response>> of every login fetch that returned
    mAnswer,       \* what claim_already_attempted() returned: "none" if not called
    mOpened,       \* sites a session was opened for, in order
    mFetches,      \* <<site, page>> of every session.fetch call, in order
    mPopped,       \* sites popped from the queue, in order
    mLogged,       \* sites log.error was called for
    mSaved,        \* sites save_picks wrote a file for
    mEnd,          \* how main ended: "none" | "returned" | "ValueError" | "Error"
    \* ---- login_action (casino.py 339-373), luckybird_action (luckybird.py 276-323)
    lgPc,          \* position in the login action
    lgVariant,     \* "casino" (login_action) | "luckybird" (luckybird_action)
    lgPre,         \* pre_login_form_callback is configured
    lgPost,        \* post_login_form_callback is configured
    lgSecret,      \* totp_secret is configured (non-empty)
    lgSelectors,   \* totp_code_selector and totp_submit_selector are configured
    lgSkipClaim,   \* skip_claim (luckybird_action)
    lgPopups,      \* what luckybird_daily_initial_popups returned or raised
    lgSteps,       \* <<step, outcome>> of every page call made, in order
    lgEnd,         \* how the action ended: "none" | "returned" | "raised"
    \* ---- the account-state parsers (scrapling_pick.py 183-203, 348-514,
    \*      casino.py 94-158)
    psPc,          \* "idle" | "loaded" | "done"
    psPage,        \* what the faucet page shows
    psFn,          \* the function that was called
    psOut,         \* how it ended: "state" | "None" | "ValueError" | ...
    psState,       \* the AccountState it returned, if any
    psNav,         \* the navbar balance element get_balance read
    psBalance,     \* what get_balance returned
    psCasinoIn,    \* what the casino page showed to get_casino_account_state
    psCasino,      \* what get_casino_account_state returned
    \* ---- Pick and its JSON form (scrapling_pick.py 53-180, 741-786)
    pkPc,          \* "none" | "live" | "tripped"
    pkPick,        \* the Pick object
    pkApplied,     \* Pick.update calls that returned
    pkArgs,        \* the arguments of the last Pick.update call
    pkUpdates,     \* Pick.update calls made on it
    pkRaised,      \* the last Pick.update call raised ValueError
    pkDict,        \* pick_to_dict_json_safe(pick), once computed
    pkLoaded,      \* json_to_pick of that dict, once computed
    \* ---- gaussian_random_delay, url_to_env_prefix, get_credentials
    utPc,          \* "idle" | "delay" | "creds" | "main"
    utDelayIn,     \* mean, stddev and the random draw
    utDelay,       \* what gaussian_random_delay returned
    utCredIn,      \* module, url, twofa and environment of get_credentials
    utCreds,       \* how get_credentials ended and what it read
    utMain,        \* how luckybird.main ended and whether it opened a session
    \* ---- consecutive runs of the script (scrapling_pick.py 997-1007)
    rnFiles,       \* sites with a JSON file in picks_data
    rnRuns,        \* per run: the sites attempted, finished, and whether
                   \* an exception left main
    \* ---- screenshot_action (scrapling_pick.py 273-331)
    shPc,          \* "idle" | "before" | "action" | "parse" | "update" |
                   \* "after" | "done"
    shCall,        \* func_name, currency and timestamp of the wrapper call
    shClock,       \* time.time() in milliseconds
    shParsed,      \* what parse_account_state_page returned (<<>> is None)
    shEvents,      \* what has happened, in order: kind and file written
    shPicks,       \* PICKS: the Pick of each currency
    shEnd          \* "none" | "returned" | "raised"

scVars == <<scPc, scN, scForce, scScroll, scAttempt, scChecks, scClickable,
            scWaited, scEnabled, scScrolled, scClickLog, scSleeps,
            scSleepCalls, scResult>>

cbVars == <<cbPc, cbCall, cbOpenOk, cbTabOk, cbDisabled, cbClaimClicks,
            cbClaimed, cbLogged, cbPending, cbCloseQueries, cbCloseCount,
            cbCloseClicks, cbRaised, cbTotalClaims>>

amVars == <<amPc, amN, amClaimed, amText, amProcessed, amClickedTexts,
            amAltCount, amAltClicks, amCloseQueries, amCloseClicks, amResult>>

kVars == <<kPc, kWager, kIter, kObs, kObsWager, kDid, kClosed, kEnd>>

mVars == <<mPc, mQueue, mFinished, mPick, mMissing, mOAuth, mSkipClaim,
           mPlayKeno, mOpen, mLoginClicks, mAttempted, mAnswer,
           mResponses, mOpened,
           mFetches, mPopped, mLogged, mSaved, mEnd>>

lgVars == <<lgPc, lgVariant, lgPre, lgPost, lgSecret, lgSelectors, lgSkipClaim,
            lgPopups, lgSteps, lgEnd>>

psVars == <<psPc, psPage, psFn, psOut, psState, psNav, psBalance, psCasinoIn,
            psCasino>>

pkVars == <<pkPc, pkPick, pkUpdates, pkApplied, pkArgs, pkRaised, pkDict,
           pkLoaded>>

utVars == <<utPc, utDelayIn, utDelay, utCredIn, utCreds, utMain>>

rnVars == <<rnFiles, rnRuns>>

shVars == <<shPc, shCall, shClock, shParsed, shEvents, shPicks, shEnd>>

vars == <<scVars, cbVars, amVars, kVars, mVars, lgVars, psVars, pkVars,
          utVars, rnVars, shVars>>

\* What each component leaves alone.
notSc == <<cbVars, amVars, kVars, mVars, lgVars, psVars, pkVars,
    utVars, rnVars, shVars>>
notCb == <<scVars, amVars, kVars, mVars, lgVars, psVars, pkVars,
    utVars, rnVars, shVars>>
notAm == <<scVars, cbVars, kVars, mVars, lgVars, psVars, pkVars,
    utVars, rnVars, shVars>>
notK == <<scVars, cbVars, amVars, mVars, lgVars, psVars, pkVars,
    utVars, rnVars, shVars>>
notM == <<scVars, cbVars, amVars, kVars, lgVars, psVars, pkVars,
    utVars, rnVars, shVars>>
notLg == <<scVars, cbVars, amVars, kVars, mVars, psVars, pkVars,
    utVars, rnVars, shVars>>
notPs == <<scVars, cbVars, amVars, kVars, mVars, lgVars, pkVars,
    utVars, rnVars, shVars>>
notPk == <<scVars, cbVars, amVars, kVars, mVars, lgVars, psVars,
    utVars, rnVars, shVars>>
notUt == <<scVars, cbVars, amVars, kVars, mVars, lgVars, psVars, pkVars,
    rnVars, shVars>>
notRn == <<scVars, cbVars, amVars, kVars, mVars, lgVars, psVars, pkVars,
    utVars, shVars>>
notSh == <<scVars, cbVars, amVars, kVars, mVars, lgVars, psVars, pkVars,
    utVars, rnVars>>

\* Largest max_retries the model calls safe_click with.
MaxRetriesArg == 4

\* Outcome of a page call that returns nothing: it returns or it raises.
CallOutcome == {"ok", "raise"}

\* Outcome of locator.is_disabled().
DisabledOutcome == {"yes", "no", "raise"}

RECURSIVE Pow2(_)
Pow2(n) == IF n = 0 THEN 1 ELSE 2 * Pow2(n - 1)

\* ------------------------------------------------------------------------
\* wait_for_clickable: the value it returns, given the outcome of the
\* visibility wait and of the disabled check. A raise of the scroll is
\* swallowed by the inner try (586) and does not change the result.
WaitForClickableIgnoringDisabled(vis, dis) ==
    vis = "ok" /\ dis # "raise"

WaitForClickable(vis, dis) ==
    IF vis = "raise" THEN FALSE
    ELSE IF dis = "raise" THEN FALSE
    ELSE IF dis = "yes" THEN FALSE
    ELSE TRUE

\* backoff_time = 1000 * (2**attempt), attempt 0-based.
BackoffConstant(attempt) == 1000

BackoffTime(attempt) == 1000 * Pow2(attempt)

\* `attempt < max_retries - 1`: a retry is left after this attempt.
RetryLeft(attempt, n) == attempt < n - 1

\* `not force and not wait_for_clickable(...)`: the check is skipped when
\* the click is forced.
SkipCheck(force) == force

AfterClickRetries(out) == "except"

\* After page.click (641-645): `return True` when it returned, the except
\* clause when it raised.
AfterClick(out) == IF out = "ok" THEN "done" ELSE "except"

InitClick ==
    /\ scPc = "idle"
    /\ scN = 0
    /\ scForce = FALSE
    /\ scScroll = FALSE
    /\ scAttempt = 0
    /\ scChecks = 0
    /\ scClickable = FALSE
    /\ scWaited = FALSE
    /\ scEnabled = FALSE
    /\ scScrolled = FALSE
    /\ scClickLog = <<>>
    /\ scSleeps = <<>>
    /\ scSleepCalls = 0
    /\ scResult = "none"

\* A call safe_click(page, selector, max_retries=n, force=f, scroll_into_view=s).
SafeClickCall ==
    /\ scPc = "idle"
    /\ \E n \in 0..MaxRetriesArg, f \in BOOLEAN, s \in BOOLEAN :
          /\ scN' = n
          /\ scForce' = f
          /\ scScroll' = s
    /\ scPc' = "loop"
    /\ UNCHANGED <<scAttempt, scChecks, scClickable, scWaited, scEnabled,
                   scScrolled, scClickLog, scSleeps, scSleepCalls, scResult>>
    /\ UNCHANGED notSc

\* The for loop is exhausted (range(max_retries) has no further value):
\* the trailing `return False` (657).
SafeClickExhausted ==
    /\ scPc = "loop"
    /\ scAttempt >= scN
    /\ scPc' = "done"
    /\ scResult' = "false"
    /\ UNCHANGED <<scN, scForce, scScroll, scAttempt, scChecks, scClickable,
                   scWaited, scEnabled, scScrolled, scClickLog, scSleeps,
                   scSleepCalls>>
    /\ UNCHANGED notSc

\* The head of one attempt (629): with force the check is skipped and the
\* attempt goes straight to the click; otherwise wait_for_clickable runs
\* (577-597) and the attempt clicks, backs off or gives up.
SafeClickCheck ==
    /\ scPc = "loop"
    /\ scAttempt < scN
    /\ IF SkipCheck(scForce)
       THEN /\ scPc' = "click"
            /\ scWaited' = FALSE
            /\ scEnabled' = FALSE
            /\ scScrolled' = FALSE
            /\ UNCHANGED <<scChecks, scClickable, scResult>>
       ELSE \E vis \in CallOutcome, scr \in CallOutcome, dis \in DisabledOutcome :
            LET ok == WaitForClickable(vis, dis) IN
            /\ scChecks' = scChecks + 1
            /\ scWaited' = (vis = "ok")
            /\ scScrolled' = (vis = "ok" /\ scScroll)
            /\ scEnabled' = (vis = "ok" /\ dis = "no")
            /\ scClickable' = (scClickable \/ ok)
            /\ IF ok
               THEN scPc' = "click" /\ scResult' = scResult
               ELSE IF RetryLeft(scAttempt, scN)
                    THEN scPc' = "backoff" /\ scResult' = scResult
                    ELSE scPc' = "done" /\ scResult' = "false"
    /\ UNCHANGED <<scN, scForce, scScroll, scAttempt, scClickLog, scSleeps,
                   scSleepCalls>>
    /\ UNCHANGED notSc

\* The backoff of the not-clickable branch (633-636), inside the try: when
\* the sleep returns the loop continues with the next attempt; when it
\* raises, the except clause of the same attempt handles it.
SafeClickBackoff ==
    /\ scPc = "backoff"
    /\ scSleepCalls' = scSleepCalls + 1
    /\ \E out \in CallOutcome :
          IF out = "ok"
          THEN /\ scSleeps' = Append(scSleeps, BackoffTime(scAttempt))
               /\ scAttempt' = scAttempt + 1
               /\ scPc' = "loop"
          ELSE /\ scPc' = "except"
               /\ UNCHANGED <<scSleeps, scAttempt>>
    /\ UNCHANGED <<scN, scForce, scScroll, scChecks, scClickable, scWaited,
                   scEnabled, scScrolled, scClickLog, scResult>>
    /\ UNCHANGED notSc

\* page.click (641-643): returns True when the click returns, and enters
\* the except clause when it raises.
SafeClickClick ==
    /\ scPc = "click"
    /\ \E out \in CallOutcome :
          /\ scClickLog' = Append(scClickLog,
                 [attempt |-> scAttempt, waited |-> scWaited,
                  enabled |-> scEnabled, ok |-> (out = "ok")])
          /\ scPc' = AfterClick(out)
          /\ scResult' = IF AfterClick(out) = "done" THEN "true" ELSE scResult
    /\ UNCHANGED <<scN, scForce, scScroll, scAttempt, scChecks, scClickable,
                   scWaited, scEnabled, scScrolled, scSleeps, scSleepCalls>>
    /\ UNCHANGED notSc

\* The except clause (645-655). Its backoff sleep is outside any try: when
\* it raises, the exception leaves safe_click.
SafeClickExcept ==
    /\ scPc = "except"
    /\ IF RetryLeft(scAttempt, scN)
       THEN /\ scSleepCalls' = scSleepCalls + 1
            /\ \E out \in CallOutcome :
                  IF out = "ok"
                  THEN /\ scSleeps' = Append(scSleeps, BackoffTime(scAttempt))
                       /\ scAttempt' = scAttempt + 1
                       /\ scPc' = "loop"
                       /\ scResult' = scResult
                  ELSE /\ scPc' = "done"
                       /\ scResult' = "raised"
                       /\ UNCHANGED <<scSleeps, scAttempt>>
       ELSE /\ scPc' = "done"
            /\ scResult' = "false"
            /\ UNCHANGED <<scSleeps, scSleepCalls, scAttempt>>
    /\ UNCHANGED <<scN, scForce, scScroll, scChecks, scClickable, scWaited,
                   scEnabled, scScrolled, scClickLog>>
    /\ UNCHANGED notSc

NextClick ==
    \/ SafeClickCall
    \/ SafeClickExhausted
    \/ SafeClickCheck
    \/ SafeClickBackoff
    \/ SafeClickClick
    \/ SafeClickExcept

\* ------------------------------------------------------------------------
\* Claims about safe_click.

safe_click_returned == scPc = "done"

\* C1: with force = False and max_retries = N >= 1, a call on an element
\* that is never clickable (every wait_for_clickable call returned False)
\* makes exactly N clickability checks, makes no click, and returns False.
C1_NeverClickableExactlyN ==
    (safe_click_returned /\ ~scForce /\ scN >= 1 /\ ~scClickable)
        => /\ scChecks = scN
           /\ scClickLog = <<>>
           /\ scResult = "false"

\* C2: safe_click never lets an exception reach its caller: whichever page
\* operation fails, the call ends by returning a boolean after at most
\* max_retries attempts.
C2_NeverPropagates ==
    safe_click_returned
        => /\ scResult \in {"true", "false"}
           /\ scChecks <= scN
           /\ Len(scClickLog) <= scN

\* C3: after the k-th failed attempt, k < max_retries, exactly one sleep of
\* 1000 * 2^(k-1) ms is completed before attempt k+1 starts, and no sleep
\* follows the final failed attempt; whether the attempt failed because the
\* element was not clickable or because the click raised.
C3_BackoffSchedule ==
    /\ \A i \in DOMAIN scSleeps : scSleeps[i] = 1000 * Pow2(i - 1)
    /\ scPc \in {"loop", "click", "backoff", "except"}
           => Len(scSleeps) = scAttempt
    /\ (safe_click_returned /\ scResult = "false" /\ scN >= 1)
           => /\ scAttempt = scN - 1
              /\ Len(scSleeps) = scN - 1

\* Three failed attempts of both kinds, two sleeps (1000 ms, then 2000 ms),
\* none after the third.
C3_Witness ==
    /\ safe_click_returned
    /\ scResult = "false"
    /\ scN = 3
    /\ scSleeps = <<1000, 2000>>
    /\ Len(scClickLog) >= 1
    /\ scChecks > Len(scClickLog)

\* C4 as stated: for every setting of force and scroll_into_view, every
\* click is made only after, in the same attempt, the element was waited on
\* until visible and found not disabled.
C4_ClickOnlyAfterCheck ==
    \A i \in DOMAIN scClickLog :
        scClickLog[i].waited /\ scClickLog[i].enabled

\* C4 amended: with force = False, for every setting of scroll_into_view,
\* every click is made only after, in the same attempt, the element was
\* waited on until visible and found not disabled; with force = True no
\* clickability check is made at all.
C4_ClickOnlyAfterCheckUnlessForced ==
    /\ ~scForce => C4_ClickOnlyAfterCheck
    /\ scForce => scChecks = 0

\* An unforced call without scrolling that clicked on its second attempt.
C4_Witness ==
    /\ safe_click_returned
    /\ ~scForce
    /\ ~scScroll
    /\ scResult = "true"
    /\ Len(scClickLog) = 2
    /\ scClickLog[2].attempt = 1


\* The click calls of this invocation that returned.
CompletedClicks == {i \in DOMAIN scClickLog : scClickLog[i].ok}

\* C29: safe_click returns True exactly when one click call of the
\* invocation completed without raising; that click is the last page call
\* of the invocation; when it returns False (or raises) no click completed;
\* and the element is scrolled only when scroll_into_view is set.
C29_TrueIffOneClick ==
    /\ scResult = "true" <=> Cardinality(CompletedClicks) = 1
    /\ CompletedClicks \subseteq {Len(scClickLog)}
    /\ CompletedClicks # {} => safe_click_returned
    /\ scResult \in {"false", "raised"} => CompletedClicks = {}
    /\ scScrolled => scScroll

\* Two clicks raised, the third completed: safe_click returned True, after
\* two backoff sleeps.
C29_Witness ==
    /\ scResult = "true"
    /\ Len(scClickLog) = 3
    /\ ~scClickLog[1].ok
    /\ ~scClickLog[2].ok
    /\ scClickLog[3].ok
    /\ Len(scSleeps) = 2


\* ========================================================================
\* claim_daily_bonus, built by make_modal_tab_button (casino.py 263-289);
\* stake_us.py 66-98 holds the same body with its selectors inlined.

\* Largest number of invocations of claim_daily_bonus in one behaviour.
MaxInvocations == 2

\* The exception classes a page call raises: playwright's Error and its
\* subclass TimeoutError.
PageErrors == {"Error", "TimeoutError"}

\* Outcome of a click, a fill or a wait: it returns or raises a page error.
PageOutcome == {"ok"} \cup PageErrors

\* Results of locator.count() the model draws.
CountResults == {0, 1, 2}

CatchesNothing(e) == FALSE

\* `except PlaywrightError`: catches Error and every subclass of it.
IsPlaywrightError(e) == e \in {"Error", "TimeoutError"}

\* `finally:` (282): where control goes when the try statement is left,
\* whether its body completed ("ok") or raised ("raised").
FinallyOnlyOnSuccess(how) == IF how = "raised" THEN "done" ELSE "closeQuery"

FinallyTarget(how) == "closeQuery"

\* `if claim_btn.is_disabled(): log ... else: claim_btn.click(...)` (275-279):
\* where the body goes after is_disabled() returned.
ClaimBranchAlwaysClick(disabled) == "claimClick"

ClaimBranch(disabled) == IF disabled THEN FinallyTarget("ok") ELSE "claimClick"

InitClaim ==
    /\ cbPc = "idle"
    /\ cbCall = 0
    /\ cbOpenOk = FALSE
    /\ cbTabOk = FALSE
    /\ cbDisabled = "unknown"
    /\ cbClaimClicks = 0
    /\ cbClaimed = FALSE
    /\ cbLogged = FALSE
    /\ cbPending = "none"
    /\ cbCloseQueries = 0
    /\ cbCloseCount = -1
    /\ cbCloseClicks = 0
    /\ cbRaised = FALSE
    /\ cbTotalClaims = 0

\* claim_daily_bonus(page) is invoked (again).
ClaimCall ==
    /\ cbPc \in {"idle", "done"}
    /\ cbCall < MaxInvocations
    /\ cbCall' = cbCall + 1
    /\ cbPc' = "open"
    /\ cbOpenOk' = FALSE
    /\ cbTabOk' = FALSE
    /\ cbDisabled' = "unknown"
    /\ cbClaimClicks' = 0
    /\ cbClaimed' = FALSE
    /\ cbLogged' = FALSE
    /\ cbPending' = "none"
    /\ cbCloseQueries' = 0
    /\ cbCloseCount' = -1
    /\ cbCloseClicks' = 0
    /\ cbRaised' = FALSE
    /\ UNCHANGED cbTotalClaims
    /\ UNCHANGED notCb

\* The try body raised e (280-281): a PlaywrightError is logged; anything
\* else stays pending while the finally clause runs.
ClaimBodyRaised(e) ==
    /\ cbLogged' = IsPlaywrightError(e)
    /\ cbPending' = IF IsPlaywrightError(e) THEN "none" ELSE e
    /\ cbPc' = FinallyTarget("raised")

\* page.click(modal_selector, ...) (272).
ClaimOpen ==
    /\ cbPc = "open"
    /\ \E out \in PageOutcome :
          IF out = "ok"
          THEN /\ cbOpenOk' = TRUE
               /\ cbPc' = "tab"
               /\ UNCHANGED <<cbLogged, cbPending>>
          ELSE /\ ClaimBodyRaised(out)
               /\ UNCHANGED cbOpenOk
    /\ UNCHANGED <<cbCall, cbTabOk, cbDisabled, cbClaimClicks, cbClaimed,
                   cbCloseQueries, cbCloseCount, cbCloseClicks, cbRaised,
                   cbTotalClaims>>
    /\ UNCHANGED notCb

\* page.click(tab_selector, ...) (273).
ClaimTab ==
    /\ cbPc = "tab"
    /\ \E out \in PageOutcome :
          IF out = "ok"
          THEN /\ cbTabOk' = TRUE
               /\ cbPc' = "isDisabled"
               /\ UNCHANGED <<cbLogged, cbPending>>
          ELSE /\ ClaimBodyRaised(out)
               /\ UNCHANGED cbTabOk
    /\ UNCHANGED <<cbCall, cbOpenOk, cbDisabled, cbClaimClicks, cbClaimed,
                   cbCloseQueries, cbCloseCount, cbCloseClicks, cbRaised,
                   cbTotalClaims>>
    /\ UNCHANGED notCb

\* claim_btn = page.locator(btn_selector); claim_btn.is_disabled() (274-276).
ClaimIsDisabled ==
    /\ cbPc = "isDisabled"
    /\ \E out \in {"yes", "no"} \cup PageErrors :
          IF out \in PageErrors
          THEN /\ ClaimBodyRaised(out)
               /\ UNCHANGED cbDisabled
          ELSE /\ cbDisabled' = out
               /\ cbPc' = ClaimBranch(out = "yes")
               /\ UNCHANGED <<cbLogged, cbPending>>
    /\ UNCHANGED <<cbCall, cbOpenOk, cbTabOk, cbClaimClicks, cbClaimed,
                   cbCloseQueries, cbCloseCount, cbCloseClicks, cbRaised,
                   cbTotalClaims>>
    /\ UNCHANGED notCb

\* claim_btn.click(...) and wait_for_load_all_safe(page, timeout=3000)
\* (278-279); wait_for_load_all_safe (215-233) swallows every PlaywrightError
\* of its waits, so its outcome changes nothing here.
ClaimClick ==
    /\ cbPc = "claimClick"
    /\ cbClaimClicks' = cbClaimClicks + 1
    /\ \E out \in PageOutcome, settle \in PageOutcome :
          IF out = "ok"
          THEN /\ cbClaimed' = TRUE
               /\ cbTotalClaims' = cbTotalClaims + 1
               /\ cbPc' = FinallyTarget("ok")
               /\ UNCHANGED <<cbLogged, cbPending>>
          ELSE /\ ClaimBodyRaised(out)
               /\ UNCHANGED <<cbClaimed, cbTotalClaims>>
    /\ UNCHANGED <<cbCall, cbOpenOk, cbTabOk, cbDisabled, cbCloseQueries,
                   cbCloseCount, cbCloseClicks, cbRaised>>
    /\ UNCHANGED notCb

\* The function is left: it raises when an exception is still pending.
ClaimLeave(pending) ==
    /\ cbPc' = "done"
    /\ cbPending' = pending
    /\ cbRaised' = (pending # "none")

\* finally: close_btn = page.locator(close_btn_selector); close_btn.count()
\* (284-286). `except PlaywrightError: pass` (288-289) swallows a raise.
ClaimCloseQuery ==
    /\ cbPc = "closeQuery"
    /\ cbCloseQueries' = cbCloseQueries + 1
    /\ \E out \in PageOutcome, n \in CountResults :
          IF out \in PageErrors
          THEN /\ ClaimLeave(IF IsPlaywrightError(out) THEN cbPending ELSE out)
               /\ UNCHANGED cbCloseCount
          ELSE /\ cbCloseCount' = n
               /\ IF n > 0
                  THEN cbPc' = "closeClick" /\ UNCHANGED <<cbPending, cbRaised>>
                  ELSE ClaimLeave(cbPending)
    /\ UNCHANGED <<cbCall, cbOpenOk, cbTabOk, cbDisabled, cbClaimClicks,
                   cbClaimed, cbLogged, cbCloseClicks, cbTotalClaims>>
    /\ UNCHANGED notCb

\* close_btn.click(...) (287), a raise swallowed by 288-289.
ClaimCloseClick ==
    /\ cbPc = "closeClick"
    /\ cbCloseClicks' = cbCloseClicks + 1
    /\ \E out \in PageOutcome :
          ClaimLeave(IF out = "ok" \/ IsPlaywrightError(out)
                     THEN cbPending ELSE out)
    /\ UNCHANGED <<cbCall, cbOpenOk, cbTabOk, cbDisabled, cbClaimClicks,
                   cbClaimed, cbLogged, cbCloseQueries, cbCloseCount,
                   cbTotalClaims>>
    /\ UNCHANGED notCb

NextClaim ==
    \/ ClaimCall
    \/ ClaimOpen
    \/ ClaimTab
    \/ ClaimIsDisabled
    \/ ClaimClick
    \/ ClaimCloseQuery
    \/ ClaimCloseClick

\* ------------------------------------------------------------------------
\* Claims about claim_daily_bonus.

claim_daily_bonus_returned == cbPc = "done"

\* The close step of this invocation ran: the close locator was queried
\* and, when it matched, clicked.
close_step_ran ==
    /\ cbCloseQueries = 1
    /\ cbCloseCount > 0 => cbCloseClicks = 1

\* C5: when the claim button is disabled after the open and tab clicks
\* succeeded, claim_daily_bonus makes no click on the claim button, runs the
\* close step and returns without raising; also on a second invocation.
C5_DisabledIsNoOp ==
    /\ cbDisabled = "yes" => (cbOpenOk /\ cbTabOk /\ cbClaimClicks = 0)
    /\ (claim_daily_bonus_returned /\ cbDisabled = "yes")
           => /\ ~cbClaimed
              /\ close_step_ran
              /\ ~cbRaised

\* The bonus was claimed by the first invocation; the second found the
\* button disabled, clicked the close button and returned.
C5_Witness ==
    /\ claim_daily_bonus_returned
    /\ cbCall = 2
    /\ cbTotalClaims = 1
    /\ cbDisabled = "yes"
    /\ cbCloseClicks = 1

\* C6: on every path through claim_daily_bonus the close step runs before
\* the function returns, and a Playwright error raised by the close step is
\* swallowed.
C6_CloseAlwaysRuns ==
    claim_daily_bonus_returned
        => /\ close_step_ran
           /\ ~cbRaised

\* The open click failed, the close button was still clicked.
C6_Witness ==
    /\ claim_daily_bonus_returned
    /\ ~cbOpenOk
    /\ cbLogged
    /\ cbCloseClicks = 1

\* C26: the claim button is clicked only after the open-modal click and the
\* tab click of the same invocation both returned, and the tab click is
\* attempted only after the open click returned; when the open click fails
\* the error is logged, the invocation makes no tab click and no claim
\* click, and it returns without raising.
C26_ClaimAfterOpenAndTab ==
    /\ cbPc = "tab" => cbOpenOk
    /\ cbPc \in {"isDisabled", "claimClick"} => (cbOpenOk /\ cbTabOk)
    /\ (cbClaimClicks > 0 \/ cbDisabled # "unknown") => (cbOpenOk /\ cbTabOk)
    /\ cbTabOk => cbOpenOk
    /\ (cbPc \in {"closeQuery", "closeClick", "done"} /\ ~cbOpenOk)
          => /\ cbLogged
             /\ ~cbTabOk
             /\ cbClaimClicks = 0
             /\ cbPending = "none"
             /\ ~cbRaised

\* The open click of the second invocation failed after the first one had
\* claimed the bonus: the failure is logged, nothing else was clicked but
\* the close button, and the function returned.
C26_Witness ==
    /\ claim_daily_bonus_returned
    /\ cbCall = 2
    /\ cbTotalClaims = 1
    /\ ~cbOpenOk
    /\ cbLogged
    /\ cbClaimClicks = 0
    /\ ~cbRaised


\* ========================================================================
\* accept_or_close_modals, built by make_generic_accept_or_close_modals
\* (casino.py 435-503). Texts are sequences of one-character strings.

\* `if n > 10` (455).
ScanLimit == 10

UpperLetters == <<"A", "B", "C", "D", "E", "F", "G", "H", "I", "J", "K", "L",
                  "M", "N", "O", "P", "Q", "R", "S", "T", "U", "V", "W", "X",
                  "Y", "Z">>

LowerLetters == <<"a", "b", "c", "d", "e", "f", "g", "h", "i", "j", "k", "l",
                  "m", "n", "o", "p", "q", "r", "s", "t", "u", "v", "w", "x",
                  "y", "z">>

\* str.lower() on one character.
LowerChar(c) ==
    IF \E i \in DOMAIN UpperLetters : UpperLetters[i] = c
    THEN LowerLetters[CHOOSE i \in DOMAIN UpperLetters : UpperLetters[i] = c]
    ELSE c

\* str.lower().
Lower(t) == [i \in DOMAIN t |-> LowerChar(t[i])]

\* The characters str.split() splits on.
IsSpace(c) == c \in {" ", "\t", "\n"}

\* str.split() without arguments, as the set the code builds from it:
\* runs of whitespace separate the words and yield no empty word.
RECURSIVE SplitFrom(_, _, _, _)
SplitFrom(t, i, word, words) ==
    IF i > Len(t)
    THEN IF word = <<>> THEN words ELSE words \cup {word}
    ELSE IF IsSpace(t[i])
         THEN SplitFrom(t, i + 1, <<>>,
                        IF word = <<>> THEN words ELSE words \cup {word})
         ELSE SplitFrom(t, i + 1, Append(word, t[i]), words)

\* button_words = set(button_text.lower().split()) (462).
ButtonWords(t) == SplitFrom(Lower(t), 1, <<>>, {})

\* accept_tokens (437).
AcceptTokens ==
    { <<"a", "c", "c", "e", "p", "t">>,
      <<"c", "l", "a", "i", "m">>,
      <<"g", "e", "t">>,
      <<"c", "o", "l", "l", "e", "c", "t">>,
      <<"y", "e", "s">>,
      <<"a", "g", "r", "e", "e">>,
      <<"o", "k", "a", "y">> }

\* The button texts the page shows in the model: "Claim", "GET BONUS",
\* "No thanks", "claimed", "\n Yes\t", "Collect!", "" and "I Agree".
ButtonTexts ==
    { <<"C", "l", "a", "i", "m">>,
      <<"G", "E", "T", " ", "B", "O", "N", "U", "S">>,
      <<"N", "o", " ", "t", "h", "a", "n", "k", "s">>,
      <<"c", "l", "a", "i", "m", "e", "d">>,
      <<"\n", " ", "Y", "e", "s", "\t">>,
      <<"C", "o", "l", "l", "e", "c", "t", "!">>,
      <<>>,
      <<"I", " ", "A", "g", "r", "e", "e">> }

\* `if accept_tokens & button_words` (465).
ClicksCandidateAlways(t) == TRUE

ClicksCandidate(t) == AcceptTokens \cap ButtonWords(t) # {}

\* `if n > 10: ... break` (455-457), n already incremented.
ScanLimitExceededLate(n) == n > ScanLimit + 1

ScanLimitExceeded(n) == n > ScanLimit

InitModals ==
    /\ amPc = "idle"
    /\ amN = 0
    /\ amClaimed = FALSE
    /\ amText = <<>>
    /\ amProcessed = 0
    /\ amClickedTexts = {}
    /\ amAltCount = -1
    /\ amAltClicks = 0
    /\ amCloseQueries = 0
    /\ amCloseClicks = 0
    /\ amResult = "none"

\* accept_or_close_modals(page) is invoked (436-437).
ModalsCall ==
    /\ amPc = "idle"
    /\ amPc' = "visible"
    /\ UNCHANGED <<amN, amClaimed, amText, amProcessed, amClickedTexts,
                   amAltCount, amAltClicks, amCloseQueries, amCloseClicks,
                   amResult>>
    /\ UNCHANGED notAm

\* expect(locator.first).to_be_visible(timeout=5000) (439-445): on an
\* AssertionError the function returns False at once.
ModalsExpectVisible ==
    /\ amPc = "visible"
    /\ \E out \in {"ok", "AssertionError"} :
          IF out = "ok"
          THEN amPc' = "scan" /\ amResult' = amResult
          ELSE amPc' = "done" /\ amResult' = "false"
    /\ UNCHANGED <<amN, amClaimed, amText, amProcessed, amClickedTexts,
                   amAltCount, amAltClicks, amCloseQueries, amCloseClicks>>
    /\ UNCHANGED notAm

\* The loop head and the start of an iteration (453-465):
\* enabled_buttons.count(), n += 1, the limit, button.text_content() and
\* the choice between clicking and dismissing. A PlaywrightError leaves the
\* loop through the except clause (491-492).
ModalsScan ==
    /\ amPc = "scan"
    /\ \E out \in PageOutcome, cnt \in CountResults,
          txt \in PageOutcome, t \in ButtonTexts :
          IF out # "ok" \/ cnt = 0
          THEN /\ amPc' = "closeQuery"
               /\ UNCHANGED <<amN, amText, amProcessed>>
          ELSE /\ amN' = amN + 1
               /\ IF ScanLimitExceeded(amN + 1) \/ txt # "ok"
                  THEN /\ amPc' = "closeQuery"
                       /\ UNCHANGED <<amText, amProcessed>>
                  ELSE /\ amText' = t
                       /\ amProcessed' = amProcessed + 1
                       /\ amPc' = IF ClicksCandidate(t) THEN "click"
                                                       ELSE "dismiss"
    /\ amAltCount' = -1
    /\ amAltClicks' = 0
    /\ UNCHANGED <<amClaimed, amClickedTexts, amCloseQueries, amCloseClicks,
                   amResult>>
    /\ UNCHANGED notAm

\* button.click(...) and, when it raises, button.click(..., force=True)
\* (469-474); a raise of the forced click reaches the except clause.
ModalsClick ==
    /\ amPc = "click"
    /\ amClickedTexts' = amClickedTexts \cup {amText}
    /\ \E out \in PageOutcome, forced \in PageOutcome :
          IF out = "ok" \/ forced = "ok"
          THEN amClaimed' = TRUE /\ amPc' = "settle"
          ELSE amClaimed' = amClaimed /\ amPc' = "closeQuery"
    /\ UNCHANGED <<amN, amText, amProcessed, amAltCount, amAltClicks,
                   amCloseQueries, amCloseClicks, amResult>>
    /\ UNCHANGED notAm

\* The else branch (476-485): button.element_handle(), the highlight (which
\* swallows its own errors, 380-395), close_buttons.count() and, when a
\* close button is there, close_buttons.first.click(...).
ModalsDismiss ==
    /\ amPc = "dismiss"
    /\ \E handle \in PageOutcome, out \in PageOutcome, cnt \in CountResults,
          clk \in PageOutcome :
          IF handle # "ok" \/ out # "ok"
          THEN /\ amPc' = "closeQuery"
               /\ UNCHANGED <<amAltCount, amAltClicks>>
          ELSE /\ amAltCount' = cnt
               /\ IF cnt > 0
                  THEN /\ amAltClicks' = amAltClicks + 1
                       /\ amPc' = IF clk = "ok" THEN "settle" ELSE "closeQuery"
                  ELSE /\ amAltClicks' = amAltClicks
                       /\ amPc' = "settle"
    /\ UNCHANGED <<amN, amClaimed, amText, amProcessed, amClickedTexts,
                   amCloseQueries, amCloseClicks, amResult>>
    /\ UNCHANGED notAm

\* wait_for_load_all_safe(page, timeout=3000) (487), which swallows the
\* errors of its waits; then the loop head again.
ModalsSettle ==
    /\ amPc = "settle"
    /\ amPc' = "scan"
    /\ UNCHANGED <<amN, amClaimed, amText, amProcessed, amClickedTexts,
                   amAltCount, amAltClicks, amCloseQueries, amCloseClicks,
                   amResult>>
    /\ UNCHANGED notAm

\* The final close step (494-503): close_button.count() and, when it
\* matches, close_button.click(...); a PlaywrightError is swallowed. Then
\* `return claimed`.
ModalsClose ==
    /\ amPc = "closeQuery"
    /\ amCloseQueries' = amCloseQueries + 1
    /\ \E out \in PageOutcome, cnt \in CountResults, clk \in PageOutcome :
          amCloseClicks' = IF out = "ok" /\ cnt > 0 THEN amCloseClicks + 1
                                                     ELSE amCloseClicks
    /\ amPc' = "done"
    /\ amResult' = IF amClaimed THEN "true" ELSE "false"
    /\ UNCHANGED <<amN, amClaimed, amText, amProcessed, amClickedTexts,
                   amAltCount, amAltClicks>>
    /\ UNCHANGED notAm

NextModals ==
    \/ ModalsCall
    \/ ModalsExpectVisible
    \/ ModalsScan
    \/ ModalsClick
    \/ ModalsDismiss
    \/ ModalsSettle
    \/ ModalsClose

\* ------------------------------------------------------------------------
\* Claims about accept_or_close_modals.

\* Some whitespace-delimited word of t, lower-cased, is an accept token.
HasAcceptWord(t) ==
    \E tok \in AcceptTokens : \E i \in 1..Len(t) :
        LET j == i + Len(tok) - 1 IN
        /\ j <= Len(t)
        /\ \A k \in 1..Len(tok) : LowerChar(t[i + k - 1]) = tok[k]
        /\ i = 1 \/ IsSpace(t[i - 1])
        /\ j = Len(t) \/ IsSpace(t[j + 1])

\* C7: a candidate button is clicked only when the set of whitespace-
\* separated, lower-cased words of its text meets the accept-token set; a
\* candidate without such a word is never clicked, and the close button is
\* clicked instead when one is present.
C7_ClicksOnlyAcceptButtons ==
    /\ \A t \in amClickedTexts : HasAcceptWord(t)
    /\ amPc = "click" => HasAcceptWord(amText)
    /\ (amPc = "settle" /\ ~HasAcceptWord(amText))
           => /\ amText \notin amClickedTexts
              /\ amAltCount >= 0
              /\ amAltCount > 0 => amAltClicks = 1

\* "GET BONUS" and "\n Yes\t" were clicked, and "No thanks" was dismissed
\* through the close button.
C7_Witness ==
    /\ amPc = "settle"
    /\ amText = <<"N", "o", " ", "t", "h", "a", "n", "k", "s">>
    /\ amAltClicks = 1
    /\ <<"G", "E", "T", " ", "B", "O", "N", "U", "S">> \in amClickedTexts
    /\ <<"\n", " ", "Y", "e", "s", "\t">> \in amClickedTexts

\* C28: every invocation of accept_or_close_modals runs the close step (the
\* close selector is queried, and clicked when present) before it returns,
\* also when the modal never became visible and when a click raised.
C28_CleanupAlwaysRuns ==
    amResult # "none" => amCloseQueries = 1

\* C8: the scan loop processes at most 10 candidate buttons, also when the
\* enabled-button locator is non-empty at every re-query; past the limit
\* the loop is left for the close step and the return.
C8_ScanBounded ==
    /\ amProcessed <= 10
    /\ amN <= 11
    /\ amN = 11 => amPc \in {"closeQuery", "done"}

\* Ten candidates were processed, the eleventh count was non-empty still,
\* and the function returned.
C8_Witness ==
    /\ amPc = "done"
    /\ amProcessed = 10
    /\ amN = 11
    /\ amCloseQueries = 1


\* ========================================================================
\* play_keno, bet_and_start_auto and get_balance (scrapling_pick.py
\* 183-253). A balance is an integer number of 10^-8 units (the pages show
\* eight decimals) and a wager an integer number of 10^-10 units, so that
\* balance / 100.0 is exact; the comparisons are made in 10^-10 units.

\* MAX_KENO_ITERATIONS (casino.py 26): "Maximum iterations in gambling loop
\* as safety net".
MAX_KENO_ITERATIONS == 1000

\* The polling loop is followed for one iteration more than the cap.
MaxPolls == MAX_KENO_ITERATIONS + 1

\* 0.00000100 (213), in units of 10^-10.
MinWager == 10000

\* What page.query_selector(balance_selector) and text_content() give:
\* no element, a text float() rejects, or a number.
BalanceReadings ==
    { [kind |-> "absent", value |-> 0],
      [kind |-> "garbage", value |-> 0],
      [kind |-> "number", value |-> 0],
      [kind |-> "number", value |-> 400],
      [kind |-> "number", value |-> 20000],
      [kind |-> "number", value |-> 2000000] }

\* get_balance (192-203): 0.0 without an element or on a ValueError.
GetBalance(r) == IF r.kind = "number" THEN r.value ELSE 0

\* wager_amount = max(0.00000100, balance / 100.0) (213), in units of 10^-10.
WagerFor(balance) == IF balance > MinWager THEN balance ELSE MinWager

\* (balance < wager_amount * 50) or (balance > wager_amount * 150) (243).
RebetCond(balance, wager) ==
    (balance * 100 < wager * 50) \/ (balance * 100 > wager * 150)

\* (balance < wager_amount * 20) or (balance > wager_amount * 1000) (246).
ExitCond(balance, wager) ==
    (balance * 100 < wager * 20) \/ (balance * 100 > wager * 1000)

InitKeno ==
    /\ kPc = "idle"
    /\ kWager = 0
    /\ kIter = 0
    /\ kObs = 0
    /\ kObsWager = 0
    /\ kDid = "none"
    /\ kClosed = FALSE
    /\ kEnd = "none"

\* play_keno(page) is invoked; the seven board clicks (229-235): a click
\* that raises ends play_keno with that exception.
KenoPicks ==
    /\ kPc = "idle"
    /\ \E out \in PageOutcome :
          IF out = "ok"
          THEN kPc' = "bet" /\ kEnd' = kEnd
          ELSE kPc' = "done" /\ kEnd' = "raised"
    /\ UNCHANGED <<kWager, kIter, kObs, kObsWager, kDid, kClosed>>
    /\ UNCHANGED notK

\* wager_amount = bet_and_start_auto(page) (237, 212-222).
KenoFirstBet ==
    /\ kPc = "bet"
    /\ \E r \in BalanceReadings, out \in PageOutcome :
          IF out = "ok"
          THEN /\ kWager' = WagerFor(GetBalance(r))
               /\ kPc' = "loop"
               /\ kEnd' = kEnd
          ELSE /\ kPc' = "done"
               /\ kEnd' = "raised"
               /\ kWager' = kWager
    /\ UNCHANGED <<kIter, kObs, kObsWager, kDid, kClosed>>
    /\ UNCHANGED notK

\* One iteration of `while True` up to the sleep (240-249): read the
\* balance; rebet (bet_and_start_auto reads the balance again), or close
\* the page and break, or do neither.
KenoPoll ==
    /\ kPc = "loop"
    /\ kIter < MaxPolls
    /\ kIter' = kIter + 1
    /\ \E r \in BalanceReadings, r2 \in BalanceReadings, out \in PageOutcome :
          LET balance == GetBalance(r) IN
          /\ kObs' = balance
          /\ kObsWager' = kWager
          /\ IF RebetCond(balance, kWager)
             THEN IF out = "ok"
                  THEN /\ kWager' = WagerFor(GetBalance(r2))
                       /\ kDid' = "rebet"
                       /\ kPc' = "wait"
                       /\ UNCHANGED <<kClosed, kEnd>>
                  ELSE /\ kDid' = "rebet"
                       /\ kPc' = "done"
                       /\ kEnd' = "raised"
                       /\ UNCHANGED <<kWager, kClosed>>
             ELSE IF ExitCond(balance, kWager)
                  THEN /\ kClosed' = TRUE
                       /\ kDid' = "exit"
                       /\ kPc' = "done"
                       /\ kEnd' = "returned"
                       /\ UNCHANGED kWager
                  ELSE /\ kDid' = "keep"
                       /\ kPc' = "wait"
                       /\ UNCHANGED <<kWager, kClosed, kEnd>>
    /\ UNCHANGED notK

\* page.wait_for_timeout(5000) (251), then the loop head.
KenoWait ==
    /\ kPc = "wait"
    /\ \E out \in PageOutcome :
          IF out = "ok"
          THEN kPc' = "loop" /\ kEnd' = kEnd
          ELSE kPc' = "done" /\ kEnd' = "raised"
    /\ UNCHANGED <<kWager, kIter, kObs, kObsWager, kDid, kClosed>>
    /\ UNCHANGED notK

NextKeno ==
    \/ KenoPicks
    \/ KenoFirstBet
    \/ KenoPoll
    \/ KenoWait

\* ------------------------------------------------------------------------
\* Claims about play_keno.

\* C9: the balance-polling loop is bounded by an explicit iteration cap:
\* whatever balances are observed, it never starts more than
\* MAX_KENO_ITERATIONS iterations.
C9_PollingCapped == kIter <= MAX_KENO_ITERATIONS

\* C10: an iteration that observes a balance below 20 times or above 1000
\* times the current wager closes the page and ends the loop instead of
\* re-betting; the wager is always at least 0.00000100.
C10_OutOfBandExits ==
    /\ kPc \in {"loop", "wait"} => kWager >= MinWager
    /\ (kDid # "none" /\ ExitCond(kObs, kObsWager))
           => /\ kDid = "exit"
              /\ kClosed
              /\ kEnd = "returned"


\* ---------------------------------------------------------------------
\* main (scrapling_pick.py 855-951): the per-site orchestration loop.

\* The sites of a run (the Pick objects, named by their env prefix).
Sites == {"TRONPICK", "LITEPICK", "DOGEPICK"}

\* Largest number of queue pops the model follows in one run (a failed
\* login re-queues its site, so the loop itself has no bound).
MaxPops == 4

\* The lists main is called with: sites in some order, none twice.
PickLists ==
    {q \in UNION {[1..n -> Sites] : n \in 0..Cardinality(Sites)} :
        \A i, j \in DOMAIN q : q[i] = q[j] => i = j}

\* get_credentials (722-738): raises ValueError when the username or the
\* password of the site is unset or empty.
get_credentials(site, missing) ==
    IF site \in missing THEN "ValueError" ELSE "ok"

\* login_page (629-659) and google_login_page: the selectors the action
\* clicks and the value it leaves in claim_attempted["value"].  Away from
\* the login page the action returns at once (641-646): the click of the
\* claim button and the assignment of True are commented out.  On the login
\* page it clicks the login button only (659).
login_page(oauth, url_has_login) ==
    [clicks |-> IF oauth THEN {"google"}
                ELSE IF url_has_login THEN {"process_login"} ELSE {},
     claim_attempted |-> FALSE]

AlwaysAttempted(flag) == TRUE

\* was_claim_attempted (603-609, 661-667): the value of the flag.
was_claim_attempted(flag) == flag

LoginNextLeavesOpen(out, skip, attempted) ==
    IF out = "loggedIn"
      THEN IF skip \/ attempted THEN "exit" ELSE "faucet"
      ELSE IF out = "loggedOut" THEN "head" ELSE "exit"

LoginNextIgnoringSkip(out, skip, attempted) ==
    IF out = "loggedIn"
      THEN IF attempted THEN "exit" ELSE "faucet"
      ELSE "exit"

\* Where the iteration goes after the login response (909-946): a failed
\* login, an exception, skip_claim and an already attempted claim all leave
\* the with block; otherwise the faucet is fetched.
LoginNext(out, skip, attempted) ==
    IF out = "loggedIn"
      THEN IF skip \/ attempted THEN "exit" ELSE "faucet"
      ELSE "exit"

AlwaysLoggedIn(res) == TRUE

\* check_logged_in (828-837): the response holds the logout link.
check_logged_in(res) == res = "loggedIn"

\* save_picks (789-800): one file per pick of the list.
save_picks(finished) == {finished[i] : i \in DOMAIN finished}

InitMain ==
    /\ mPc = "idle"
    /\ mQueue = <<>>
    /\ mFinished = <<>>
    /\ mPick = "none"
    /\ mMissing = {}
    /\ mOAuth = FALSE
    /\ mSkipClaim = FALSE
    /\ mPlayKeno = FALSE
    /\ mOpen = 0
    /\ mLoginClicks = {}
    /\ mAttempted = FALSE
    /\ mAnswer = "none"
    /\ mResponses = <<>>
    /\ mOpened = <<>>
    /\ mFetches = <<>>
    /\ mPopped = <<>>
    /\ mLogged = {}
    /\ mSaved = {}
    /\ mEnd = "none"

\* main(picks, use_google_oauth, skip_claim, play_keno) is entered with the
\* environment `missing`; finished_picks = [] (880).
MainCall ==
    /\ mPc = "idle"
    /\ \E picks \in PickLists, missing \in SUBSET Sites,
          oauth \in BOOLEAN, skip \in BOOLEAN, keno \in BOOLEAN :
            /\ mQueue' = picks
            /\ mMissing' = missing
            /\ mOAuth' = oauth
            /\ mSkipClaim' = skip
            /\ mPlayKeno' = keno
    /\ mFinished' = <<>>
    /\ mPc' = "head"
    /\ UNCHANGED <<mPick, mOpen, mOpened, mFetches, mPopped, mLogged,
                   mSaved, mEnd>>
    /\ UNCHANGED <<mLoginClicks, mAttempted, mAnswer, mResponses>>
    /\ UNCHANGED notM

\* while len(picks) > 0: pick = picks.pop(0) (881-882).
MainPop ==
    /\ mPc = "head"
    /\ Len(mQueue) > 0
    /\ Len(mPopped) < MaxPops
    /\ mPick' = Head(mQueue)
    /\ mQueue' = Tail(mQueue)
    /\ mPopped' = Append(mPopped, Head(mQueue))
    /\ mPc' = "creds"
    /\ UNCHANGED <<mFinished, mMissing, mOAuth, mSkipClaim, mPlayKeno,
                   mOpen, mOpened, mFetches, mLogged, mSaved, mEnd>>
    /\ UNCHANGED <<mLoginClicks, mAttempted, mAnswer, mResponses>>
    /\ UNCHANGED notM

\* The login method is chosen (884-888); get_credentials is called outside
\* any try, so its ValueError leaves main.
MainCredentials ==
    /\ mPc = "creds"
    /\ IF ~mOAuth /\ get_credentials(mPick, mMissing) = "ValueError"
         THEN /\ mEnd' = "ValueError"
              /\ mPc' = "done"
         ELSE /\ mPc' = "enter"
              /\ UNCHANGED mEnd
    /\ mLoginClicks' = {}
    /\ mAttempted' = FALSE
    /\ mAnswer' = "none"
    /\ UNCHANGED mResponses
    /\ UNCHANGED <<mQueue, mFinished, mPick, mMissing, mOAuth, mSkipClaim,
                   mPlayKeno, mOpen, mOpened, mFetches, mPopped, mLogged,
                   mSaved>>
    /\ UNCHANGED notM

\* with StealthySession(...) as session (896-903): the session starts, or
\* starting it raises; the with statement is outside the try.
MainSessionEnter ==
    /\ mPc = "enter"
    /\ \E out \in CallOutcome :
        IF out = "ok"
          THEN /\ mOpen' = mOpen + 1
               /\ mOpened' = Append(mOpened, mPick)
               /\ mPc' = "login"
               /\ UNCHANGED mEnd
          ELSE /\ mEnd' = "Error"
               /\ mPc' = "done"
               /\ UNCHANGED <<mOpen, mOpened>>
    /\ UNCHANGED <<mQueue, mFinished, mPick, mMissing, mOAuth, mSkipClaim,
                   mPlayKeno, mFetches, mPopped, mLogged, mSaved>>
    /\ UNCHANGED <<mLoginClicks, mAttempted, mAnswer, mResponses>>
    /\ UNCHANGED notM

\* session.fetch(login.php, page_action=login_page) and check_logged_in
\* (905-930), inside the try: a confirmed login appends the pick to
\* finished_picks, a failed one re-queues it, an exception is logged.
MainLoginFetch ==
    /\ mPc = "login"
    /\ mFetches' = Append(mFetches, <<mPick, "login.php">>)
    /\ \E url_has_login \in BOOLEAN, out \in {"loggedIn", "loggedOut", "raise"} :
        LET action == login_page(mOAuth, url_has_login)
            confirmed == out # "raise" /\ check_logged_in(out)
            asked == confirmed /\ ~mSkipClaim
            attempted == asked /\ was_claim_attempted(action.claim_attempted)
        IN  /\ mLoginClicks' = action.clicks
            /\ mAttempted' = action.claim_attempted
            /\ mAnswer' = IF ~asked THEN "none"
                          ELSE IF attempted THEN "True" ELSE "False"
            /\ mPc' = LoginNext(IF confirmed THEN "loggedIn" ELSE out,
                                mSkipClaim, attempted)
            /\ CASE out = "raise" ->
                        /\ mLogged' = mLogged \cup {mPick}
                        /\ UNCHANGED <<mQueue, mFinished, mResponses>>
                  [] out # "raise" /\ confirmed ->
                        /\ mResponses' = Append(mResponses, <<mPick, out>>)
                        /\ mFinished' = Append(mFinished, mPick)
                        /\ UNCHANGED <<mQueue, mLogged>>
                  [] out # "raise" /\ ~confirmed ->
                        /\ mResponses' = Append(mResponses, <<mPick, out>>)
                        /\ mLogged' = mLogged \cup {mPick}
                        /\ mQueue' = Append(mQueue, mPick)
                        /\ UNCHANGED mFinished
    /\ UNCHANGED <<mPick, mMissing, mOAuth, mSkipClaim, mPlayKeno, mOpen,
                   mOpened, mPopped, mSaved, mEnd>>
    /\ UNCHANGED notM

\* session.fetch(faucet.php, page_action=faucet) (932-933).
MainFaucetFetch ==
    /\ mPc = "faucet"
    /\ mFetches' = Append(mFetches, <<mPick, "faucet.php">>)
    /\ \E out \in CallOutcome :
        IF out = "ok"
          THEN /\ mPc' = "keno"
               /\ UNCHANGED mLogged
          ELSE /\ mLogged' = mLogged \cup {mPick}
               /\ mPc' = "exit"
    /\ UNCHANGED <<mQueue, mFinished, mPick, mMissing, mOAuth, mSkipClaim,
                   mPlayKeno, mOpen, mOpened, mPopped, mSaved, mEnd>>
    /\ UNCHANGED <<mLoginClicks, mAttempted, mAnswer, mResponses>>
    /\ UNCHANGED notM

\* if play_keno: session.fetch(keno.php, ...) (937-942).
MainKenoFetch ==
    /\ mPc = "keno"
    /\ IF mPlayKeno
         THEN /\ mFetches' = Append(mFetches, <<mPick, "keno.php">>)
              /\ \E out \in CallOutcome :
                    mLogged' = IF out = "ok" THEN mLogged
                               ELSE mLogged \cup {mPick}
         ELSE UNCHANGED <<mFetches, mLogged>>
    /\ mPc' = "exit"
    /\ UNCHANGED <<mQueue, mFinished, mPick, mMissing, mOAuth, mSkipClaim,
                   mPlayKeno, mOpen, mOpened, mPopped, mSaved, mEnd>>
    /\ UNCHANGED <<mLoginClicks, mAttempted, mAnswer, mResponses>>
    /\ UNCHANGED notM

\* The with block is left (by continue or by falling off its end): the
\* session is closed and the loop test is next.
MainSessionExit ==
    /\ mPc = "exit"
    /\ mOpen' = mOpen - 1
    /\ mPick' = "none"
    /\ mPc' = "head"
    /\ UNCHANGED <<mQueue, mFinished, mMissing, mOAuth, mSkipClaim,
                   mPlayKeno, mOpened, mFetches, mPopped, mLogged, mSaved,
                   mEnd>>
    /\ UNCHANGED <<mLoginClicks, mAttempted, mAnswer, mResponses>>
    /\ UNCHANGED notM

\* The queue is empty: summarize_picks and save_picks(finished_picks)
\* (948-951), then main returns.
MainSave ==
    /\ mPc = "head"
    /\ Len(mQueue) = 0
    /\ mSaved' = save_picks(mFinished)
    /\ mEnd' = "returned"
    /\ mPc' = "done"
    /\ UNCHANGED <<mQueue, mFinished, mPick, mMissing, mOAuth, mSkipClaim,
                   mPlayKeno, mOpen, mOpened, mFetches, mPopped, mLogged>>
    /\ UNCHANGED <<mLoginClicks, mAttempted, mAnswer, mResponses>>
    /\ UNCHANGED notM

NextMain ==
    \/ MainCall
    \/ MainPop
    \/ MainCredentials
    \/ MainSessionEnter
    \/ MainLoginFetch
    \/ MainFaucetFetch
    \/ MainKenoFetch
    \/ MainSessionExit
    \/ MainSave

\* Claims about main.

\* An exception has left main.
main_raised == mEnd \in {"ValueError", "Error"}

\* C11: a failure while processing one site (missing credentials, a session
\* that does not start, an exception in the login or claim flow) is logged
\* and the sites still in the queue are processed: no failure leaves main,
\* and main ends only with an empty queue.
C11_FailureNeverEndsBatch ==
    /\ ~main_raised
    /\ mEnd = "returned" => mQueue = <<>>

\* C12: missing credentials are raised before any browser action: when main
\* ends with the ValueError of get_credentials, no session was opened and
\* no page was fetched for any site.
C12_CredentialsBeforeBrowser ==
    mEnd = "ValueError" => (mOpened = <<>> /\ mFetches = <<>>)

\* C21: at most one browser session is open at any time: a session is open
\* exactly while the iteration of its site is between the start of the with
\* block and its end, the fetches of a site are made inside that span, and
\* no session is open when the next site is popped or when main has ended.
C21_OneSessionAtATime ==
    /\ mOpen \in {0, 1}
    /\ mOpen = 1 <=> mPc \in {"login", "faucet", "keno", "exit"}
    /\ mOpen = 1 => mOpened[Len(mOpened)] = mPick
    /\ \A i \in DOMAIN mFetches : \E j \in DOMAIN mOpened :
            mOpened[j] = mFetches[i][1]

\* A second session has been opened after the first one ended in each of
\* the ways an iteration can end, and the first is closed.
C21_Witness ==
    /\ Len(mOpened) = 4
    /\ mOpen = 1
    /\ mPc = "login"
    /\ \E a, b, c \in Sites :
          /\ a \in mLogged /\ mOpened[1] = a /\ a \notin {b, c}
          /\ mOpened[2] = b /\ b # c
          /\ <<b, "keno.php">> \in {mFetches[i] : i \in DOMAIN mFetches}
          /\ mOpened[3] = c /\ mOpened[4] = c

\* C23: claim_already_attempted() returns True exactly when the login
\* action of the iteration clicked the claim button (button_selector, 21)
\* and False otherwise; the flag it returns says the same; and the faucet
\* is fetched only in an iteration where it returned False.
C23_AttemptedIffClaimClicked ==
    /\ mAttempted <=> "process_claim_hourly_faucet" \in mLoginClicks
    /\ mAnswer # "none" =>
          (mAnswer = "True" <=> "process_claim_hourly_faucet" \in mLoginClicks)
    /\ mPc \in {"faucet", "keno"} => mAnswer = "False"

\* The login action found the browser away from the login page (641-646),
\* clicked nothing, the login was confirmed, claim_already_attempted()
\* returned False and the faucet is fetched next.
C23_Witness ==
    /\ ~mOAuth
    /\ mLoginClicks = {}
    /\ mAnswer = "False"
    /\ mPc = "faucet"
    /\ mFinished # <<>> /\ mFinished[Len(mFinished)] = mPick

\* C30: with skip_claim no faucet.php is fetched; a faucet fetch of a site
\* directly follows the login fetch of that site and the site's login was
\* confirmed (it is in finished_picks); a keno fetch directly follows the
\* faucet fetch of its site.
C30_FetchOrder ==
    \A i \in DOMAIN mFetches :
        /\ mFetches[i][2] = "faucet.php" =>
              /\ ~mSkipClaim
              /\ i > 1 /\ mFetches[i - 1] = <<mFetches[i][1], "login.php">>
              /\ \E j \in DOMAIN mFinished : mFinished[j] = mFetches[i][1]
        /\ mFetches[i][2] = "keno.php" =>
              /\ mPlayKeno
              /\ i > 1 /\ mFetches[i - 1] = <<mFetches[i][1], "faucet.php">>

\* After a failed login of a site and its retry, the faucet and keno pages
\* of the site were fetched.
C30_Witness ==
    /\ ~mSkipClaim
    /\ \E a \in Sites :
          mFetches = << <<a, "login.php">>, <<a, "login.php">>,
                        <<a, "faucet.php">>, <<a, "keno.php">> >>

\* How many times main has dequeued the site.
Dequeues(site) == Cardinality({i \in DOMAIN mPopped : mPopped[i] = site})

\* C32: every site is dequeued a bounded number of times, also when its
\* login never succeeds: no site is dequeued again and again for as long as
\* the run is followed (MaxPops dequeues), with its login never confirmed.
C32_DequeuesBounded ==
    \A site \in Sites :
        ~(/\ Dequeues(site) = MaxPops
          /\ \A i \in DOMAIN mFinished : mFinished[i] # site
          /\ mPc = "head"
          /\ mQueue = <<site>>)

\* C33: no site is in the pending queue and in finished_picks at the same
\* time, finished_picks holds each site at most once, and every site in it
\* had a login response for which check_logged_in returned True; the site
\* being processed is in the queue no more.
C33_QueueAndFinishedDisjoint ==
    /\ \A i \in DOMAIN mQueue, j \in DOMAIN mFinished : mQueue[i] # mFinished[j]
    /\ \A i, j \in DOMAIN mFinished : mFinished[i] = mFinished[j] => i = j
    /\ \A j \in DOMAIN mFinished :
          \E k \in DOMAIN mResponses : mResponses[k] = <<mFinished[j], "loggedIn">>
    /\ \A k \in DOMAIN mResponses :
          mResponses[k][2] = "loggedIn" =>
              \E j \in DOMAIN mFinished : mFinished[j] = mResponses[k][1]

\* One site failed its first login, was re-queued and then logged in; a
\* second site is finished too.
C33_Witness ==
    /\ Len(mFinished) = 2
    /\ mQueue = <<>>
    /\ \E k \in DOMAIN mResponses :
          /\ mResponses[k][2] = "loggedOut"
          /\ \E j \in DOMAIN mFinished : mFinished[j] = mResponses[k][1]

\* C13: when the run has ended, every site appended to finished_picks has
\* been written by save_picks.
C13_FinishedAreSaved ==
    mEnd # "none" => \A i \in DOMAIN mFinished : mFinished[i] \in mSaved


\* ---------------------------------------------------------------------
\* login_action (casino.py 339-373) and luckybird_action
\* (luckybird.py 276-323): the login page actions.

\* The steps whose exception the code catches without re-raising: the
\* tab-login click (luckybird.py 278-283) and wait_for_load_all_safe
\* (casino.py 215-233). Every other step is unguarded or sits in a try whose
\* except clause logs and re-raises.
SwallowsPreToo(step) == step \in {"tabLogin", "load", "finalLoad", "pre"}

Swallows(step) == step \in {"tabLogin", "load", "finalLoad"}

TotpAppliesCodeOnly(variant, secret, selectors) ==
    IF variant = "casino" THEN secret /\ selectors.code ELSE secret

\* `if totp_secret and totp_code_selector and totp_submit_selector`
\* (casino.py 362); `if totp_secret` (luckybird.py 297).
TotpApplies(variant, secret, selectors) ==
    IF variant = "casino"
    THEN secret /\ selectors.code /\ selectors.submit
    ELSE secret

\* One page call of the action: it returns or raises; an exception that is
\* not swallowed ends the action by raising.
LoginStep(step, next) ==
    \E out \in CallOutcome :
        /\ lgSteps' = Append(lgSteps, <<step, out>>)
        /\ IF out = "ok" \/ Swallows(step)
             THEN /\ lgPc' = next
                  /\ lgEnd' = IF next = "done" THEN "returned" ELSE lgEnd
             ELSE /\ lgPc' = "done"
                  /\ lgEnd' = "raised"

\* A step the configuration leaves out.
LoginSkip(next) ==
    /\ lgPc' = next
    /\ lgEnd' = IF next = "done" THEN "returned" ELSE lgEnd
    /\ UNCHANGED lgSteps

\* enabled_buttons.count() (luckybird.py 142) on the list that
\* page.query_selector_all returned: list.count takes exactly one argument.
list_count(n) == "TypeError"

\* `not claimed` (luckybird.py 322): true for False and for None.
Falsy(v) == v \in {"False", "None"}

lgConfig == <<lgVariant, lgPre, lgPost, lgSecret, lgSelectors, lgSkipClaim>>

InitLogin ==
    /\ lgPc = "idle"
    /\ lgVariant = "casino"
    /\ lgPre = FALSE
    /\ lgPost = FALSE
    /\ lgSecret = FALSE
    /\ lgSelectors = [code |-> FALSE, submit |-> FALSE]
    /\ lgSkipClaim = FALSE
    /\ lgSteps = <<>>
    /\ lgPopups = "none"
    /\ lgEnd = "none"

\* The action is called with a configuration bound by its factory.
LoginCall ==
    /\ lgPc = "idle"
    /\ \E v \in {"casino", "luckybird"}, pre \in BOOLEAN, post \in BOOLEAN,
          secret \in BOOLEAN, code \in BOOLEAN, sub \in BOOLEAN,
          skip \in BOOLEAN :
            /\ lgVariant' = v
            /\ lgPre' = (v = "casino" /\ pre)
            /\ lgPost' = (v = "casino" /\ post)
            /\ lgSecret' = secret
            /\ lgSelectors' = [code |-> v = "luckybird" \/ code,
                               submit |-> v = "luckybird" \/ sub]
            /\ lgSkipClaim' = (v = "luckybird" /\ skip)
    /\ lgPc' = "first"
    /\ UNCHANGED <<lgSteps, lgEnd, lgPopups>>
    /\ UNCHANGED notLg

\* casino.py 341-342: the pre-login callback, outside any try.
\* luckybird.py 278-283: the tab-login click, its exception passed over.
LoginFirst ==
    /\ lgPc = "first"
    /\ IF lgVariant = "luckybird" THEN LoginStep("tabLogin", "user")
       ELSE IF lgPre THEN LoginStep("pre", "user")
       ELSE LoginSkip("user")
    /\ UNCHANGED <<lgConfig, lgPopups>>
    /\ UNCHANGED notLg

\* page.fill(username_selector, username) (casino.py 345, luckybird.py 287).
LoginFillUser ==
    /\ lgPc = "user"
    /\ LoginStep("fillUser", "pass")
    /\ UNCHANGED <<lgConfig, lgPopups>>
    /\ UNCHANGED notLg

\* page.fill(password_selector, password) (casino.py 346, luckybird.py 288).
LoginFillPass ==
    /\ lgPc = "pass"
    /\ LoginStep("fillPass", "submit")
    /\ UNCHANGED <<lgConfig, lgPopups>>
    /\ UNCHANGED notLg

\* The submit click, logged and re-raised on failure (casino.py 348-352,
\* luckybird.py 290-294).
LoginSubmit ==
    /\ lgPc = "submit"
    /\ LoginStep("submit", IF lgVariant = "casino" THEN "load" ELSE "totpWait")
    /\ UNCHANGED <<lgConfig, lgPopups>>
    /\ UNCHANGED notLg

\* casino.py 355: wait_for_load_all_safe after the submit.
LoginLoad ==
    /\ lgPc = "load"
    /\ LoginStep("load", "post")
    /\ UNCHANGED <<lgConfig, lgPopups>>
    /\ UNCHANGED notLg

\* casino.py 358-359: the post-login callback.
LoginPost ==
    /\ lgPc = "post"
    /\ IF lgPost THEN LoginStep("post", "totpWait") ELSE LoginSkip("totpWait")
    /\ UNCHANGED <<lgConfig, lgPopups>>
    /\ UNCHANGED notLg

\* The bounded wait for the TOTP input (casino.py 362-364,
\* luckybird.py 297-299), inside the try that logs and re-raises.
LoginTotpWait ==
    /\ lgPc = "totpWait"
    /\ IF TotpApplies(lgVariant, lgSecret, lgSelectors)
         THEN LoginStep("totpWait", "totpFill")
         ELSE LoginSkip("finalLoad")
    /\ UNCHANGED <<lgConfig, lgPopups>>
    /\ UNCHANGED notLg

\* page.fill(totp_code_selector, totp_code) (casino.py 365-366,
\* luckybird.py 300-301).
LoginTotpFill ==
    /\ lgPc = "totpFill"
    /\ LoginStep("totpFill", "totpSubmit")
    /\ UNCHANGED <<lgConfig, lgPopups>>
    /\ UNCHANGED notLg

\* page.click(totp_submit_selector) (casino.py 367, luckybird.py 302).
LoginTotpSubmit ==
    /\ lgPc = "totpSubmit"
    /\ LoginStep("totpSubmit", "finalLoad")
    /\ UNCHANGED <<lgConfig, lgPopups>>
    /\ UNCHANGED notLg

\* The final wait_for_load_all_safe (casino.py 373, luckybird.py 308);
\* login_action returns after it.
LoginFinalLoad ==
    /\ lgPc = "finalLoad"
    /\ LoginStep("finalLoad", IF lgVariant = "casino" THEN "done" ELSE "claim")
    /\ UNCHANGED <<lgConfig, lgPopups>>
    /\ UNCHANGED notLg

\* luckybird.py 311-320: the balances are parsed (parse_coin_balances
\* catches every exception) and, unless skip_claim, the daily bonus popups
\* are handled.
LoginLuckybirdClaim ==
    /\ lgPc = "claim"
    /\ IF lgSkipClaim THEN LoginSkip("done") ELSE LoginSkip("popupWait")
    /\ UNCHANGED <<lgConfig, lgPopups>>
    /\ UNCHANGED notLg

\* luckybird_daily_initial_popups (luckybird.py 128-134): the wait for the
\* modal; its PlaywrightError is logged and the function returns False.
PopupsWait ==
    /\ lgPc = "popupWait"
    /\ \E out \in CallOutcome :
        /\ lgSteps' = Append(lgSteps, <<"popupWait", out>>)
        /\ IF out = "ok"
             THEN lgPc' = "popupQuery" /\ UNCHANGED lgPopups
             ELSE lgPc' = "fallback" /\ lgPopups' = "False"
    /\ UNCHANGED <<lgConfig, lgEnd>>
    /\ UNCHANGED notLg

\* luckybird.py 136-159: page.query_selector_all and the loop test
\* enabled_buttons.count() > 0. A PlaywrightError of the query is logged
\* and the close step is next; otherwise the loop test is evaluated, and
\* only a test that returns lets the loop click (at most three times),
\* wait for the load and return True.
PopupsQuery ==
    /\ lgPc = "popupQuery"
    /\ \E out \in CallOutcome, buttons \in 0..1, click \in CallOutcome :
        /\ lgSteps' = Append(lgSteps, <<"popupQuery", out>>)
        /\ IF out = "raise"
             THEN /\ lgPc' = "popupClose"
                  /\ UNCHANGED <<lgPopups, lgEnd>>
             ELSE IF list_count(buttons) = "TypeError"
             THEN /\ lgPopups' = "TypeError"
                  /\ lgEnd' = "raised"
                  /\ lgPc' = "done"
             ELSE IF buttons > 0 /\ click = "raise"
             THEN /\ lgPc' = "popupClose"
                  /\ UNCHANGED <<lgPopups, lgEnd>>
             ELSE /\ lgPopups' = "True"
                  /\ lgPc' = "fallback"
                  /\ UNCHANGED lgEnd
    /\ UNCHANGED lgConfig
    /\ UNCHANGED notLg

\* luckybird.py 161-168: the close step, its PlaywrightError passed over;
\* the function ends without a return statement.
PopupsClose ==
    /\ lgPc = "popupClose"
    /\ \E out \in CallOutcome :
        lgSteps' = Append(lgSteps, <<"popupClose", out>>)
    /\ lgPopups' = "None"
    /\ lgPc' = "fallback"
    /\ UNCHANGED <<lgConfig, lgEnd>>
    /\ UNCHANGED notLg

\* luckybird.py 321-323: `claimed = ...; if not claimed: luckybird_mtb(page)`.
\* luckybird_mtb (53-68) calls claim_daily_bonus, which handles the errors
\* of its page calls.
LoginFallback ==
    /\ lgPc = "fallback"
    /\ lgSteps' = IF Falsy(lgPopups) THEN Append(lgSteps, <<"fallback", "ok">>)
                  ELSE lgSteps
    /\ lgPc' = "done"
    /\ lgEnd' = "returned"
    /\ UNCHANGED <<lgConfig, lgPopups>>
    /\ UNCHANGED notLg

NextLogin ==
    \/ LoginCall
    \/ LoginFirst
    \/ LoginFillUser
    \/ LoginFillPass
    \/ LoginSubmit
    \/ LoginLoad
    \/ LoginPost
    \/ LoginTotpWait
    \/ LoginTotpFill
    \/ LoginTotpSubmit
    \/ LoginFinalLoad
    \/ LoginLuckybirdClaim
    \/ PopupsWait
    \/ PopupsQuery
    \/ PopupsClose
    \/ LoginFallback

\* Claims about the login actions.

StepsDone == {lgSteps[i][1] : i \in DOMAIN lgSteps}

Failed(step) == \E i \in DOMAIN lgSteps : lgSteps[i] = <<step, "raise">>

\* C14: a TOTP secret is configured and the TOTP input does not become
\* visible within the bounded wait: the action does not raise, and when it
\* has ended the final load wait has run.
C14_TotpAbsentIsNotError ==
    Failed("totpWait") =>
        /\ lgEnd # "raised"
        /\ lgEnd = "returned" => "finalLoad" \in StepsDone

\* C15: when the pre-login callback raises, login_action ends by raising
\* and makes no later call: no username fill, no password fill, no submit
\* click, no TOTP entry.
C15_PreLoginFailureAborts ==
    Failed("pre") =>
        /\ lgEnd = "raised"
        /\ lgSteps = << <<"pre", "raise">> >>

C15_Witness ==
    /\ lgVariant = "casino"
    /\ lgPre
    /\ Failed("pre")
    /\ lgPc = "done"

\* C31: luckybird_daily_initial_popups returns True or False, never None
\* and never an exception, and luckybird_action runs the modal-tab-button
\* fallback exactly when it returned False.
C31_PopupsReturnBool ==
    /\ lgPopups \in {"none", "True", "False"}
    /\ lgPc = "done" => ("fallback" \in StepsDone <=> lgPopups = "False")

\* The place of a step in login_action (casino.py 339-373).
StepRank(step) ==
    CASE step = "pre" -> 1
      [] step = "fillUser" -> 2
      [] step = "fillPass" -> 3
      [] step = "submit" -> 4
      [] step = "load" -> 5
      [] step = "post" -> 6
      [] step = "totpWait" -> 7
      [] step = "totpFill" -> 8
      [] step = "totpSubmit" -> 9
      [] step = "finalLoad" -> 10
      [] OTHER -> 11

\* The call `step` was made and returned.
Succeeded(step) == \E i \in DOMAIN lgSteps : lgSteps[i] = <<step, "ok">>

\* C27: login_action makes its calls in the order fills, submit click,
\* TOTP entry, final wait: the submit click is made only after both fills
\* returned, the TOTP code is filled only after the submit click returned,
\* the TOTP steps are made only with a secret and both TOTP selectors
\* configured, a failed submit click ends the action by raising with no
\* later call, and the action returns only after the submit click returned.
C27_LoginOrder ==
    lgVariant = "casino" =>
        /\ \A i, j \in DOMAIN lgSteps :
              i < j => StepRank(lgSteps[i][1]) < StepRank(lgSteps[j][1])
        /\ "submit" \in StepsDone =>
              (Succeeded("fillUser") /\ Succeeded("fillPass"))
        /\ "totpFill" \in StepsDone => Succeeded("submit")
        /\ StepsDone \cap {"totpWait", "totpFill", "totpSubmit"} # {} =>
              (lgSecret /\ lgSelectors.code /\ lgSelectors.submit)
        /\ Failed("submit") =>
              /\ lgEnd = "raised"
              /\ lgSteps[Len(lgSteps)] = <<"submit", "raise">>
        /\ lgEnd = "returned" => Succeeded("submit")

\* A login with pre-login callback and TOTP went through every step and
\* returned.
C27_Witness ==
    /\ lgVariant = "casino"
    /\ lgEnd = "returned"
    /\ Len(lgSteps) = 10
    /\ Succeeded("totpSubmit")


\* ---------------------------------------------------------------------
\* The account-state parsers: parse_account_state_page
\* (scrapling_pick.py 348-432), parse_account_state_res (435-514),
\* get_balance (183-203) and get_casino_account_state (casino.py 94-158).
\* A text is a sequence of one-character strings.

DigitChars == <<"0", "1", "2", "3", "4", "5", "6", "7", "8", "9">>

DigitValue(c) == (CHOOSE i \in DOMAIN DigitChars : DigitChars[i] = c) - 1

AllDigits(t) ==
    \A i \in DOMAIN t : \E j \in DOMAIN DigitChars : DigitChars[j] = t[i]

\* The value of a run of decimal digits.
RECURSIVE ToNat(_)
ToNat(t) ==
    IF t = <<>> THEN 0
    ELSE 10 * ToNat(SubSeq(t, 1, Len(t) - 1)) + DigitValue(t[Len(t)])

\* str.strip(): leading and trailing whitespace is removed.
RECURSIVE Strip(_)
Strip(t) ==
    IF t # <<>> /\ IsSpace(Head(t)) THEN Strip(Tail(t))
    ELSE IF t # <<>> /\ IsSpace(t[Len(t)])
         THEN Strip(SubSeq(t, 1, Len(t) - 1))
         ELSE t

\* str.replace(",", "").
KeepCommas(t) == t

RemoveCommas(t) == SelectSeq(t, LAMBDA c : c # ",")

\* A float is kept exactly: sign, integer part, and the fraction digits
\* without trailing zeros (so 0.50 and 0.5 are the same value).
RECURSIVE DropTrailingZeros(_)
DropTrailingZeros(t) ==
    IF t # <<>> /\ t[Len(t)] = "0"
    THEN DropTrailingZeros(SubSeq(t, 1, Len(t) - 1))
    ELSE t

Number(neg, int, frac) ==
    [neg |-> neg /\ ~(int = 0 /\ frac = <<>>), int |-> int, frac |-> frac]

Zero == Number(FALSE, 0, <<>>)

\* A text without its leading sign, if it has one.
Unsigned(t) == IF t # <<>> /\ t[1] \in {"+", "-"} THEN Tail(t) ELSE t

\* float(text): surrounding whitespace, an optional sign, digits with at
\* most one decimal point and a digit on at least one side of it; any other
\* text raises ValueError (ok = FALSE). Exponents, inf, nan and underscores
\* are outside the alphabet of the texts the model draws.
ParseFloat(t) ==
    LET u == Unsigned(Strip(t))
        dots == {i \in DOMAIN u : u[i] = "."}
        d == IF dots = {} THEN Len(u) + 1 ELSE CHOOSE i \in dots : TRUE
        ip == SubSeq(u, 1, d - 1)
        fp == SubSeq(u, d + 1, Len(u))
        ok == /\ Cardinality(dots) <= 1
              /\ AllDigits(ip)
              /\ AllDigits(fp)
              /\ ip # <<>> \/ fp # <<>>
    IN  IF ok
        THEN [ok |-> TRUE,
              val |-> Number(Strip(t)[1] = "-", ToNat(ip), DropTrailingZeros(fp))]
        ELSE [ok |-> FALSE, val |-> Zero]

\* int(text): surrounding whitespace, an optional sign, one or more digits;
\* any other text (a decimal point included) raises ValueError.
ParseInt(t) ==
    LET u == Unsigned(Strip(t))
        ok == u # <<>> /\ AllDigits(u)
    IN  IF ok
        THEN [ok |-> TRUE,
              val |-> IF Strip(t)[1] = "-" THEN 0 - ToNat(u) ELSE ToNat(u)]
        ELSE [ok |-> FALSE, val |-> 0]

\* An optional value: <<>> is None, <<x>> is the value x.
Opt(S) == {<<>>} \cup {<<x>> : x \in S}

\* `element.text_content() if element else default` (408-412, 462-466).
TextOr(element, default) == IF element # <<>> THEN element[1] ELSE default

\* The texts the model puts in a balance element.
BalanceTexts ==
    { <<"1", ",", "2", "3", "4", ".", "5", "6">>,
      <<" ", "0", ".", "5", "0", " ">>,
      <<"7">>,
      <<"-", "0", ".", "5">>,
      <<"a", "b", "c">> }

\* The texts of the active flip-clock digit elements, in document order.
DigitLists ==
    { <<>>,
      << <<"0">> >>,
      << <<"0">>, <<"5">>, <<"3">> >>,
      << <<"0">>, <<"5">>, <<"3">>, <<"2">> >>,
      << <<"1">>, <<"2">>, <<"3">>, <<"4">>, <<"5">> >>,
      << <<" ", "0">>, <<"5", " ">>, <<"3">>, <<"2">> >>,
      << <<"1", "9">>, <<"5">>, <<"3">>, <<"2">> >>,
      << <<>>, <<"5">>, <<"3">>, <<"2">> >> }

\* What a faucet page shows. `clock` is the element
\* div#faucet_countdown_clock, which contains the digit elements.
Pages ==
    {pg \in [balance : Opt(BalanceTexts),
             wagered : Opt({ <<"2", ".", "5">>, <<"1", ",", "0">>,
                             <<"n", "/", "a">> }),
             target : Opt({ <<"1", "0">>, <<"-">> }),
             remaining_claims : Opt({ <<"3">>, <<" ", "4", " ">>, <<"-", "2">>,
                                      <<"2", ".", "0">>, <<"x">> }),
             free_spins : Opt({ <<"1", "2">>, <<"0">>, <<>> }),
             clock : BOOLEAN,
             digits : DigitLists] :
        pg.digits # <<>> => pg.clock}

\* The default texts of 408-412 and 462-466 ("0.0" and "0") and the
\* numeric parses of 415-419 and 469-473.
ParsedFields(pg) ==
    [balance |->
        ParseFloat(Strip(RemoveCommas(Strip(
            TextOr(pg.balance, <<"0", ".", "0">>))))),
     wagered |-> ParseFloat(Strip(TextOr(pg.wagered, <<"0", ".", "0">>))),
     target |-> ParseFloat(Strip(TextOr(pg.target, <<"0", ".", "0">>))),
     remaining_claims |->
        ParseInt(Strip(TextOr(pg.remaining_claims, <<"0">>))),
     free_spins |-> ParseInt(Strip(TextOr(pg.free_spins, <<"0">>)))]

\* None of the five parses raises ValueError.
FieldsParse(pg) ==
    \A f \in DOMAIN ParsedFields(pg) : ParsedFields(pg)[f].ok

AccountState(pg, time) ==
    [balance |-> ParsedFields(pg).balance.val,
     wagered |-> ParsedFields(pg).wagered.val,
     target |-> ParsedFields(pg).target.val,
     remaining_claims |-> ParsedFields(pg).remaining_claims.val,
     free_spins |-> ParsedFields(pg).free_spins.val,
     time_remaining |-> time]

\* The character a digit element contributes.
LastChar(t) == t[Len(t)]

FirstChar(t) == t[1]

\* parse_flipclock (374-403) once wait_for_selector has returned:
\* `digits_text[i][0] if digits_text[i] else "0"` on the stripped texts of
\* the first four elements; fewer than four elements give None.
PageDigit(t) == IF Strip(t) # <<>> THEN FirstChar(Strip(t)) ELSE "0"

parse_flipclock(digits) ==
    IF Len(digits) >= 4
    THEN << <<PageDigit(digits[1]), PageDigit(digits[2]), ":",
              PageDigit(digits[3]), PageDigit(digits[4])>> >>
    ELSE <<>>

\* The countdown of parse_account_state_res (476-505):
\* `active_digits[i].text.strip()[0]`; an empty text raises IndexError,
\* which is caught and leaves time_remaining None.
ResFlipclock(pg) ==
    IF ~pg.clock THEN <<>>
    ELSE IF Len(pg.digits) < 4 THEN <<>>
    ELSE IF \E i \in 1..4 : Strip(pg.digits[i]) = <<>> THEN <<>>
    ELSE << <<FirstChar(Strip(pg.digits[1])), FirstChar(Strip(pg.digits[2])),
              ":",
              FirstChar(Strip(pg.digits[3])), FirstChar(Strip(pg.digits[4]))>> >>

\* parse_account_state_page (348-432). With no digit element attached
\* page.wait_for_selector (377) times out; that exception and the
\* ValueError of a numeric parse are caught at 421 and give None.
parse_account_state_page(pg) ==
    IF pg.digits = <<>> THEN [out |-> "None", state |-> <<>>]
    ELSE IF ~FieldsParse(pg) THEN [out |-> "None", state |-> <<>>]
    ELSE [out |-> "state",
          state |-> <<AccountState(pg, parse_flipclock(pg.digits))>>]

\* parse_account_state_res (435-514): nothing catches the ValueError of a
\* numeric parse.
parse_account_state_res(pg) ==
    IF ~FieldsParse(pg) THEN [out |-> "ValueError", state |-> <<>>]
    ELSE [out |-> "state", state |-> <<AccountState(pg, ResFlipclock(pg))>>]

\* get_balance (183-203): 0.0 without the element or when float() raises.
get_balance(element) ==
    IF element = <<>> THEN Zero
    ELSE LET p == ParseFloat(Strip(RemoveCommas(Strip(element[1]))))
         IN  IF p.ok THEN p.val ELSE Zero

\* str.replace(code, ""): every occurrence of the currency code is removed.
RECURSIVE RemoveCode(_, _)
RemoveCode(t, code) ==
    IF Len(t) < Len(code) THEN t
    ELSE IF SubSeq(t, 1, Len(code)) = code
         THEN RemoveCode(SubSeq(t, Len(code) + 1, Len(t)), code)
         ELSE <<Head(t)>> \o RemoveCode(Tail(t), code)

\* What one selector of a currency finds: no element, an exception, or an
\* element with a text.
SelectorReadings ==
    { [kind |-> "absent", text |-> <<>>],
      [kind |-> "raise", text |-> <<>>],
      [kind |-> "text", text |-> <<"S", "C", " ", "1", ".", "5">>],
      [kind |-> "text", text |-> <<"1", ",", "0", "0", "0">>],
      [kind |-> "text", text |-> <<"n", "/", "a">>] }

\* casino.py 123-127: the text of one selector, cleaned and parsed.
CurrencyParse(reading, code) ==
    IF reading.kind # "text" THEN [ok |-> FALSE, val |-> Zero]
    ELSE ParseFloat(Strip(RemoveCommas(RemoveCode(Strip(reading.text), code))))

\* casino.py 119-138: the first selector whose text parses gives the
\* balance of the currency; a selector without element, with an exception
\* or with a text float() rejects is passed over, and the balance keeps
\* its initial 0.0 when none parses.
RECURSIVE CurrencyBalance(_, _, _)
CurrencyBalance(readings, code, i) ==
    IF i > Len(readings) THEN Zero
    ELSE IF CurrencyParse(readings[i], code).ok
         THEN CurrencyParse(readings[i], code).val
         ELSE CurrencyBalance(readings, code, i + 1)

\* get_casino_account_state (casino.py 94-158). The toggle clicks
\* (106-110, 139-144, 147-151) are outside any try.
get_casino_account_state(in) ==
    IF (in.dropdown \/ in.switch) /\ in.clicks = "raise"
    THEN [out |-> "raised", sweeps_coins |-> Zero, gold_coins |-> Zero]
    ELSE [out |-> "state",
          sweeps_coins |-> CurrencyBalance(in.sc, <<"S", "C">>, 1),
          gold_coins |-> CurrencyBalance(in.gc, <<"G", "C">>, 1)]

\* The configuration and the page: the readings of the one or two
\* selectors of each currency, in order, the toggles that are configured
\* and whether their clicks return.
CasinoInputs ==
    LET ReadingLists == UNION {[1..n -> SelectorReadings] : n \in 1..2}
    IN  [sc : ReadingLists, gc : ReadingLists, dropdown : BOOLEAN,
         switch : BOOLEAN, clicks : CallOutcome]

InitParse ==
    /\ psPc = "idle"
    /\ psPage = [balance |-> <<>>, wagered |-> <<>>, target |-> <<>>,
                 remaining_claims |-> <<>>, free_spins |-> <<>>,
                 clock |-> FALSE, digits |-> <<>>]
    /\ psFn = "none"
    /\ psOut = "none"
    /\ psState = <<>>
    /\ psNav = <<>>
    /\ psBalance = Zero
    /\ psCasinoIn = [sc |-> <<>>, gc |-> <<>>, dropdown |-> FALSE,
                     switch |-> FALSE, clicks |-> "ok"]
    /\ psCasino = [out |-> "none", sweeps_coins |-> Zero, gold_coins |-> Zero]

\* The browser shows a faucet page.
ParseLoad ==
    /\ psPc = "idle"
    /\ psPage' \in Pages
    /\ psPc' = "loaded"
    /\ UNCHANGED <<psFn, psOut, psState, psNav, psBalance, psCasinoIn,
                   psCasino>>
    /\ UNCHANGED notPs

\* parse_account_state_page(page).
ParsePage ==
    /\ psPc = "loaded"
    /\ psFn' = "page"
    /\ psOut' = parse_account_state_page(psPage).out
    /\ psState' = parse_account_state_page(psPage).state
    /\ psPc' = "done"
    /\ UNCHANGED <<psPage, psNav, psBalance, psCasinoIn, psCasino>>
    /\ UNCHANGED notPs

\* parse_account_state_res(res).
ParseRes ==
    /\ psPc = "loaded"
    /\ psFn' = "res"
    /\ psOut' = parse_account_state_res(psPage).out
    /\ psState' = parse_account_state_res(psPage).state
    /\ psPc' = "done"
    /\ UNCHANGED <<psPage, psNav, psBalance, psCasinoIn, psCasino>>
    /\ UNCHANGED notPs

\* get_balance(page), on a page whose navbar balance element is psNav.
ParseGetBalance ==
    /\ psPc = "idle"
    /\ psFn' = "get_balance"
    /\ \E element \in Opt(BalanceTexts) :
        /\ psNav' = element
        /\ psBalance' = get_balance(element)
    /\ psOut' = "float"
    /\ psPc' = "done"
    /\ UNCHANGED <<psPage, psState, psCasinoIn, psCasino>>
    /\ UNCHANGED notPs

\* get_casino_account_state(page), on a casino page showing psCasinoIn.
ParseCasino ==
    /\ psPc = "idle"
    /\ psFn' = "casino"
    /\ \E in \in CasinoInputs :
        /\ psCasinoIn' = in
        /\ psCasino' = get_casino_account_state(in)
        /\ psOut' = get_casino_account_state(in).out
    /\ psPc' = "done"
    /\ UNCHANGED <<psPage, psState, psNav, psBalance>>
    /\ UNCHANGED notPs

NextParse ==
    \/ ParseLoad
    \/ ParsePage
    \/ ParseRes
    \/ ParseGetBalance
    \/ ParseCasino


\* Claims about the parsers.

\* The texts of the model that are not numbers of the field's type.
NumericPage(pg) ==
    /\ pg.balance # << <<"a", "b", "c">> >>
    /\ pg.wagered \notin { << <<"1", ",", "0">> >>, << <<"n", "/", "a">> >> }
    /\ pg.target # << <<"-">> >>
    /\ pg.remaining_claims \notin { << <<"2", ".", "0">> >>, << <<"x">> >> }
    /\ pg.free_spins # << <<>> >>

\* A parser was applied to the page; for parse_account_state_page the
\* flip-clock is present.
ParsedWithClock ==
    \/ psFn = "res"
    \/ psFn = "page" /\ psPage.digits # <<>>

\* The first character of a text that is not whitespace, if it has one.
HasChar(t) == \E i \in DOMAIN t : ~IsSpace(t[i])

FirstNonSpace(t) ==
    t[CHOOSE i \in DOMAIN t :
        ~IsSpace(t[i]) /\ \A j \in 1..(i - 1) : IsSpace(t[j])]

\* C16: parse_account_state_page on a page with no flip-clock digit element
\* and numeric balance fields returns an AccountState whose time_remaining
\* is None.
C16_NoDigitsGivesState ==
    (psFn = "page" /\ psPage.digits = <<>> /\ NumericPage(psPage)) =>
        /\ psOut = "state"
        /\ psState[1].time_remaining = <<>>

\* C17: in both parsers (the page parser with the flip-clock present), on a
\* page whose present elements hold numbers, a state is returned, every
\* field whose element is missing is 0, the fields of the present elements
\* keep their values, and the balance text 1,234.56 gives 1234.56.
C17_MissingFieldDefaultsToZero ==
    (ParsedWithClock /\ NumericPage(psPage)) =>
        /\ psOut = "state"
        /\ psPage.balance = <<>> => psState[1].balance = Zero
        /\ psPage.wagered = <<>> => psState[1].wagered = Zero
        /\ psPage.target = <<>> => psState[1].target = Zero
        /\ psPage.remaining_claims = <<>> => psState[1].remaining_claims = 0
        /\ psPage.free_spins = <<>> => psState[1].free_spins = 0
        /\ psPage.balance = << <<"1", ",", "2", "3", "4", ".", "5", "6">> >>
              => psState[1].balance =
                    [neg |-> FALSE, int |-> 1234, frac |-> <<"5", "6">>]
        /\ psPage.wagered = << <<"2", ".", "5">> >>
              => psState[1].wagered =
                    [neg |-> FALSE, int |-> 2, frac |-> <<"5">>]
        /\ psPage.target = << <<"1", "0">> >>
              => psState[1].target = [neg |-> FALSE, int |-> 10, frac |-> <<>>]
        /\ psPage.remaining_claims = << <<"3">> >>
              => psState[1].remaining_claims = 3
        /\ psPage.free_spins = << <<"1", "2">> >>
              => psState[1].free_spins = 12

C17_Witness ==
    /\ psFn = "page"
    /\ psOut = "state"
    /\ psPage.digits # <<>>
    /\ psPage.wagered = <<>>
    /\ psPage.free_spins = <<>>
    /\ psPage.balance = << <<"1", ",", "2", "3", "4", ".", "5", "6">> >>
    /\ psState[1].wagered = Zero
    /\ psState[1].balance.int = 1234

\* C18: a text that is not a number makes only its field default to zero:
\* both parsers still return a state, with that field 0; get_balance
\* returns 0.0; get_casino_account_state leaves the currency at 0.0.
C18_BadTextOnlyZeroesField ==
    /\ (ParsedWithClock /\ ~NumericPage(psPage)) =>
          /\ psOut = "state"
          /\ psPage.balance = << <<"a", "b", "c">> >>
                => psState[1].balance = Zero
          /\ psPage.target = << <<"-">> >> => psState[1].target = Zero
          /\ psPage.remaining_claims = << <<"x">> >>
                => psState[1].remaining_claims = 0
    /\ (psFn = "get_balance" /\ psNav = << <<"a", "b", "c">> >>) =>
          psBalance = Zero
    /\ (psFn = "casino" /\ psOut = "state"
            /\ \A i \in DOMAIN psCasinoIn.sc :
                  psCasinoIn.sc[i].text = <<"n", "/", "a">>) =>
          psCasino.sweeps_coins = Zero

\* C19 as stated: with four or more digit elements time_remaining is built
\* from the first character of each of the first four, d0 d1 : d2 d3; with
\* one to three elements it is None.
C19_FlipclockFromFirstChars ==
    (psFn \in {"page", "res"} /\ psOut = "state") =>
        LET d == psPage.digits
            t == psState[1].time_remaining
        IN  /\ Len(d) \in 1..3 => t = <<>>
            /\ Len(d) >= 4 =>
                  /\ t # <<>>
                  /\ \A i \in 1..4 :
                        HasChar(d[i]) =>
                            t[1][IF i <= 2 THEN i ELSE i + 1]
                                = FirstNonSpace(d[i])
                  /\ t[1][3] = ":"

\* C19, amended: the character of an element is the first character of its
\* stripped text. An element whose stripped text is empty contributes "0"
\* in parse_account_state_page and makes time_remaining None in
\* parse_account_state_res.
C19_FlipclockFromStrippedTexts ==
    (psFn \in {"page", "res"} /\ psOut = "state") =>
        LET d == psPage.digits
            t == psState[1].time_remaining
            c(i) == IF HasChar(d[i]) THEN FirstNonSpace(d[i]) ELSE "0"
        IN  /\ Len(d) \in 1..3 => t = <<>>
            /\ Len(d) >= 4 =>
                  IF psFn = "res" /\ \E i \in 1..4 : ~HasChar(d[i])
                  THEN t = <<>>
                  ELSE t = << <<c(1), c(2), ":", c(3), c(4)>> >>

C19_Witness ==
    /\ psFn = "res"
    /\ psOut = "state"
    /\ psPage.digits = << <<"0">>, <<"5">>, <<"3">>, <<"2">> >>
    /\ psState[1].time_remaining = << <<"0", "5", ":", "3", "2">> >>


\* C22: every AccountState returned by parse_account_state_page or
\* parse_account_state_res has non-negative balance, wagered, target,
\* remaining_claims and free_spins.
C22_FieldsNonNegative ==
    (psFn \in {"page", "res"} /\ psOut = "state") =>
        /\ ~psState[1].balance.neg
        /\ ~psState[1].wagered.neg
        /\ ~psState[1].target.neg
        /\ psState[1].remaining_claims >= 0
        /\ psState[1].free_spins >= 0

\* ---------------------------------------------------------------------
\* Pick (scrapling_pick.py 53-180) and its JSON form:
\* pick_to_dict_json_safe (741-765) and json_to_pick (768-786).

\* Largest number of Pick.update calls the model makes on one Pick.
MaxUpdates == 2

\* A datetime is whole seconds and microseconds. datetime.isoformat()
\* writes the seconds part (here one numeral) and, only when the
\* microseconds are not 0, a point and the microseconds as six digits.
RECURSIVE NatText(_)
NatText(n) ==
    IF n < 10 THEN <<DigitChars[n + 1]>>
    ELSE NatText(n \div 10) \o <<DigitChars[(n % 10) + 1]>>

RECURSIVE ZerosText(_)
ZerosText(n) == IF n <= 0 THEN <<>> ELSE <<"0">> \o ZerosText(n - 1)

NoPad(t) == t

Pad6(t) == ZerosText(6 - Len(t)) \o t

isoformat(dt) ==
    NatText(dt.sec) \o
        (IF dt.us = 0 THEN <<>> ELSE <<".">> \o Pad6(NatText(dt.us)))

\* datetime.fromisoformat(): the digits after the point are a fraction of
\* a second, read as microseconds; no point means 0 microseconds.
fromisoformat(t) ==
    LET dots == {i \in DOMAIN t : t[i] = "."}
        d == IF dots = {} THEN Len(t) + 1 ELSE CHOOSE i \in dots : TRUE
        fp == SubSeq(t, d + 1, Len(t))
    IN  [sec |-> ToNat(SubSeq(t, 1, d - 1)),
         us |-> ToNat(fp \o ZerosText(6 - Len(fp)))]

\* What datetime.now() returns in the model.
Times ==
    { [sec |-> 17, us |-> 0], [sec |-> 17, us |-> 5],
      [sec |-> 20, us |-> 500000] }

PickUrls == {"https://tronpick.io/", "https://litepick.io/"}

\* Pick.__init__ (65-68) over the class defaults (56-63).
NewPick(url, currency) ==
    [url |-> url, currency |-> currency, history |-> <<>>,
     last_update |-> <<>>, balance |-> Zero, wagered |-> Zero,
     target |-> Zero, remaining_claims |-> 0, free_spins |-> 0,
     cooldown_timer |-> <<>>]

\* The arguments the model calls Pick.update with.
UpdateArgs ==
    [account_state :
        Opt({[balance |-> Number(FALSE, 7, <<>>),
              wagered |-> Number(FALSE, 2, <<"5">>),
              target |-> Number(FALSE, 10, <<>>),
              remaining_claims |-> 3, free_spins |-> 12,
              time_remaining |-> << <<"0", "5", ":", "3", "2">> >>]}),
     balance : Opt({Number(FALSE, 1234, <<"5", "6">>)}),
     wagered : Opt({Number(FALSE, 1, <<>>)}),
     target : Opt({Number(FALSE, 50, <<>>)}),
     remaining_claims : Opt({4}),
     free_spins : Opt({1}),
     cooldown_timer : Opt({<<"1", "0", ":", "0", "0">>})]

UpdateRaisesDespiteState(a) ==
    a.balance = <<>> \/ a.wagered = <<>> \/ a.target = <<>>

\* Pick.update (100-148): whether it raises ValueError (128-129).
UpdateRaises(a) ==
    /\ a.account_state = <<>>
    /\ a.balance = <<>> \/ a.wagered = <<>> \/ a.target = <<>>

\* The snapshot tuple of history and get_history (138-140, 153).
Snapshot(p) ==
    <<p.last_update[1], p.balance, p.wagered, p.target, p.remaining_claims,
      p.free_spins>>

HistoryNeverAppends(p) == p.history

\* Pick.update 137-140: the previous snapshot is appended when the pick
\* has been updated before.
HistoryAfter(p) ==
    IF p.last_update # <<>> THEN Append(p.history, Snapshot(p)) ELSE p.history

\* Pick.get_history (150-156).
get_history(p) ==
    IF p.last_update # <<>> THEN p.history \o <<Snapshot(p)>> ELSE p.history

\* Pick.update (100-148) when it does not raise, at time `now`.
Update(p, a, now) ==
    LET given == a.account_state # <<>>
        s == a.account_state[1]
        claims == IF given THEN s.remaining_claims
                  ELSE IF a.remaining_claims = <<>> THEN 0
                  ELSE a.remaining_claims[1]
        spins == IF given THEN s.free_spins
                 ELSE IF a.free_spins = <<>> THEN 0
                 ELSE a.free_spins[1]
    IN  [url |-> p.url,
         currency |-> p.currency,
         history |-> HistoryAfter(p),
         last_update |-> <<now>>,
         balance |-> IF given THEN s.balance ELSE a.balance[1],
         wagered |-> IF given THEN s.wagered ELSE a.wagered[1],
         target |-> IF given THEN s.target ELSE a.target[1],
         remaining_claims |-> claims,
         free_spins |-> spins,
         cooldown_timer |->
            IF given THEN s.time_remaining ELSE a.cooldown_timer]

\* pick_to_dict_json_safe (741-765).
pick_to_dict_json_safe(p) ==
    [url |-> p.url,
     currency |-> p.currency,
     balance |-> p.balance,
     wagered |-> p.wagered,
     history |->
        [i \in DOMAIN p.history |->
            <<isoformat(p.history[i][1]), p.history[i][2], p.history[i][3],
              p.history[i][4], p.history[i][5], p.history[i][6]>>],
     last_update |->
        IF p.last_update # <<>> THEN <<isoformat(p.last_update[1])>>
        ELSE <<>>,
     target |-> p.target,
     remaining_claims |-> p.remaining_claims,
     free_spins |-> p.free_spins]

\* json_to_pick (768-786): a new Pick, every field but cooldown_timer
\* assigned from the dict.
json_to_pick(data) ==
    [NewPick(data.url, data.currency) EXCEPT
        !.balance = data.balance,
        !.wagered = data.wagered,
        !.history =
            [i \in DOMAIN data.history |->
                <<fromisoformat(data.history[i][1]), data.history[i][2],
                  data.history[i][3], data.history[i][4],
                  data.history[i][5], data.history[i][6]>>],
        !.last_update =
            IF data.last_update # <<>>
            THEN <<fromisoformat(data.last_update[1])>>
            ELSE <<>>,
        !.target = data.target,
        !.remaining_claims =
            IF "remaining_claims" \in DOMAIN data
            THEN data.remaining_claims ELSE 0,
        !.free_spins =
            IF "free_spins" \in DOMAIN data THEN data.free_spins ELSE 0]

InitPick ==
    /\ pkPc = "none"
    /\ pkPick = NewPick("", "")
    /\ pkUpdates = 0
    /\ pkApplied = 0
    /\ pkArgs = <<>>
    /\ pkRaised = FALSE
    /\ pkDict = <<>>
    /\ pkLoaded = <<>>

\* Pick(url, currency).
PickNew ==
    /\ pkPc = "none"
    /\ \E url \in PickUrls : pkPick' = NewPick(url, "TRX")
    /\ pkPc' = "live"
    /\ UNCHANGED <<pkUpdates, pkApplied, pkArgs, pkRaised, pkDict, pkLoaded>>
    /\ UNCHANGED notPk

\* pick.update(...): ValueError without a change, or the new snapshot.
PickUpdate ==
    /\ pkPc = "live"
    /\ pkUpdates < MaxUpdates
    /\ \E a \in UpdateArgs, now \in Times :
        /\ pkArgs' = <<a>>
        /\ IF UpdateRaises(a)
           THEN /\ pkRaised' = TRUE
                /\ UNCHANGED <<pkPick, pkApplied>>
           ELSE /\ pkRaised' = FALSE
                /\ pkPick' = Update(pkPick, a, now)
                /\ pkApplied' = pkApplied + 1
    /\ pkUpdates' = pkUpdates + 1
    /\ UNCHANGED <<pkPc, pkDict, pkLoaded>>
    /\ UNCHANGED notPk

\* json_to_pick(pick_to_dict_json_safe(pick)).
PickRoundTrip ==
    /\ pkPc = "live"
    /\ pkDict' = <<pick_to_dict_json_safe(pkPick)>>
    /\ pkLoaded' = <<json_to_pick(pick_to_dict_json_safe(pkPick))>>
    /\ pkPc' = "tripped"
    /\ UNCHANGED <<pkPick, pkUpdates, pkApplied, pkArgs, pkRaised>>
    /\ UNCHANGED notPk

NextPick ==
    \/ PickNew
    \/ PickUpdate
    \/ PickRoundTrip

\* Claims about the JSON form of Pick.

UpdateStep == pkUpdates' = pkUpdates + 1

C36_ValueErrorChangesNothing ==
    [][UpdateStep =>
        LET a == pkArgs'[1] IN
        /\ (/\ a.account_state = <<>>
            /\ a.balance = <<>> \/ a.wagered = <<>> \/ a.target = <<>>)
              => (pkRaised' /\ pkPick' = pkPick)
        /\ a.account_state # <<>> =>
              /\ ~pkRaised'
              /\ pkPick'.balance = a.account_state[1].balance
              /\ pkPick'.wagered = a.account_state[1].wagered
              /\ pkPick'.target = a.account_state[1].target
              /\ pkPick'.remaining_claims = a.account_state[1].remaining_claims
              /\ pkPick'.free_spins = a.account_state[1].free_spins
              /\ pkPick'.cooldown_timer = a.account_state[1].time_remaining]_vars

\* An update with the target missing raised after an earlier update had
\* returned: the Pick still holds the values of the earlier update.
C36_Witness ==
    /\ pkRaised
    /\ pkUpdates = 2
    /\ pkApplied = 1
    /\ pkArgs[1].account_state = <<>>
    /\ pkArgs[1].balance # <<>> /\ pkArgs[1].wagered # <<>>
    /\ pkArgs[1].target = <<>>
    /\ pkPick.history = <<>>
    /\ pkPick.last_update # <<>>


\* ---------------------------------------------------------------------
\* gaussian_random_delay (casino.py 548-559, scrapling_pick.py 334-345),
\* url_to_env_prefix (casino.py 508-521, scrapling_pick.py 706-719) and
\* get_credentials (casino.py 524-545, scrapling_pick.py 722-738).
\* Durations are in tenths of a millisecond where they are floats.

\* random.gauss(mean, stddev) = mean + z * stddev for the standard normal
\* draw z; mean and stddev in ms, z in tenths, the sample in tenths of a ms.
gauss(mean, stddev, z) == mean * 10 + z * stddev

NoClamp(x) == x

\* max(0, x).
Max0(x) == IF x > 0 THEN x ELSE 0

\* int(x) of a float in tenths: truncation toward zero.
IntTrunc(x) == IF x >= 0 THEN x \div 10 ELSE 0 - ((0 - x) \div 10)

\* return int(max(0, random.gauss(mean, stddev))).
gaussian_random_delay(mean, stddev, z) == IntTrunc(Max0(gauss(mean, stddev, z)))

\* str.upper() on one character.
UpperChar(c) ==
    IF \E i \in DOMAIN LowerLetters : LowerLetters[i] = c
    THEN UpperLetters[CHOOSE i \in DOMAIN LowerLetters : LowerLetters[i] = c]
    ELSE c

\* The position of the first character of t that is in S, or Len(t) + 1.
FirstIn(t, S) ==
    IF \E i \in DOMAIN t : t[i] \in S
    THEN CHOOSE i \in DOMAIN t : t[i] \in S /\ \A j \in 1..(i - 1) : t[j] \notin S
    ELSE Len(t) + 1

\* urlparse(url).netloc: after a scheme (letters before the first colon),
\* the text between "//" and the next "/", "?" or "#"; empty when the rest
\* does not begin with "//".
Netloc(url) ==
    LET c == FirstIn(url, {":"})
        hasScheme == /\ 1 < c /\ c <= Len(url)
                     /\ \A i \in 1..(c - 1) : LowerChar(url[i]) \in
                            {LowerLetters[k] : k \in DOMAIN LowerLetters}
        rest == IF hasScheme THEN SubSeq(url, c + 1, Len(url)) ELSE url
        after == SubSeq(rest, 3, Len(rest))
    IN  IF Len(rest) >= 2 /\ rest[1] = "/" /\ rest[2] = "/"
        THEN SubSeq(after, 1, FirstIn(after, {"/", "?", "#"}) - 1)
        ELSE <<>>

WholeText(t) == t

\* t.split(".")[0].
FirstLabel(t) == SubSeq(t, 1, FirstIn(t, {"."}) - 1)

\* url_to_env_prefix: netloc.split(".")[0].upper().
url_to_env_prefix(url) ==
    LET label == FirstLabel(Netloc(url))
    IN  [i \in DOMAIN label |-> UpperChar(label[i])]

\* The URLs the model passes: the sites of the repository, a host with a
\* port and no dot, and a URL without scheme.
Urls ==
    { <<"h", "t", "t", "p", "s", ":", "/", "/", "t", "r", "o", "n", "p", "i",
        "c", "k", ".", "i", "o", "/">>,
      <<"h", "t", "t", "p", "s", ":", "/", "/", "l", "u", "c", "k", "y", "b",
        "i", "r", "d", ".", "i", "o">>,
      <<"h", "t", "t", "p", "s", ":", "/", "/", "s", "t", "a", "k", "e", ".",
        "u", "s">>,
      <<"h", "t", "t", "p", ":", "/", "/", "l", "o", "c", "a", "l", "h", "o",
        "s", "t", ":", "8", "0", "8", "0", "/">>,
      <<"t", "r", "o", "n", "p", "i", "c", "k", ".", "i", "o">> }

\* The environment: what os.getenv returns for <prefix>_USERNAME,
\* <prefix>_PASSWORD and <prefix>_2FA of the prefix of the URL: None, ""
\* or a value.
Environments == [{"_USERNAME", "_PASSWORD", "_2FA"} -> Opt({"", "hunter2"})]

\* The truth value of an os.getenv result: None and "" are false.
Truthy(v) == v # <<>> /\ v[1] # ""

\* get_credentials of module `variant`: the variables it reads, whether it
\* raises ValueError and the tuple it returns. casino.py (524-545) reads the
\* 2FA variable after the username and password check and returns three
\* values; scrapling_pick.py (722-738) has no twofa argument, reads two
\* variables and returns two values.
GetCredentials(variant, url, twofa, env) ==
    LET prefix == url_to_env_prefix(url)
        base == {<<prefix, "_USERNAME">>, <<prefix, "_PASSWORD">>}
    IN  IF ~Truthy(env["_USERNAME"]) \/ ~Truthy(env["_PASSWORD"])
        THEN [out |-> "ValueError", reads |-> base, value |-> <<>>]
        ELSE IF variant = "scrapling_pick"
        THEN [out |-> "ok", reads |-> base,
              value |-> <<env["_USERNAME"], env["_PASSWORD"]>>]
        ELSE IF twofa /\ ~Truthy(env["_2FA"])
        THEN [out |-> "ValueError",
              reads |-> base \cup {<<prefix, "_2FA">>}, value |-> <<>>]
        ELSE [out |-> "ok", reads |-> base \cup {<<prefix, "_2FA">>},
              value |-> <<env["_USERNAME"], env["_PASSWORD"], env["_2FA"]>>]

InitUtil ==
    /\ utPc = "idle"
    /\ utDelayIn = [mean |-> 50, stddev |-> 10, z |-> 0]
    /\ utDelay = 0
    /\ utCredIn = [variant |-> "casino", url |-> <<>>, twofa |-> FALSE,
                   env |-> [n \in {"_USERNAME", "_PASSWORD", "_2FA"} |-> <<>>]]
    /\ utCreds = [out |-> "none", reads |-> {}, value |-> <<>>]
    /\ utMain = [out |-> "none", session |-> FALSE, action |-> FALSE]

\* gaussian_random_delay(mean, stddev) with the draw z: the defaults
\* (50, 10), the call of make_claim_faucet (500, 100), a zero and a
\* negative mean, and draws up to six standard deviations either side.
DelayCall ==
    /\ utPc = "idle"
    /\ \E in \in [mean : {0 - 20, 0, 50, 500}, stddev : {0, 1, 10, 100},
                  z : {0 - 60, 0 - 15, 0 - 1, 0, 1, 15, 60}] :
        /\ utDelayIn' = in
        /\ utDelay' = gaussian_random_delay(in.mean, in.stddev, in.z)
    /\ utPc' = "delay"
    /\ UNCHANGED <<utCredIn, utCreds, utMain>>
    /\ UNCHANGED notUt

\* get_credentials(url, twofa) of casino.py, or get_credentials(url) of
\* scrapling_pick.py, in the environment env.
CredentialsCall ==
    /\ utPc = "idle"
    /\ \E variant \in {"casino", "scrapling_pick"}, url \in Urls,
          twofa \in BOOLEAN, env \in Environments :
        /\ variant = "scrapling_pick" => ~twofa
        /\ utCredIn' = [variant |-> variant, url |-> url, twofa |-> twofa,
                        env |-> env]
        /\ utCreds' = GetCredentials(variant, url, twofa, env)
    /\ utPc' = "creds"
    /\ UNCHANGED <<utDelayIn, utDelay, utMain>>
    /\ UNCHANGED notUt

\* The URL luckybird.main passes to get_credentials (luckybird.py 336).
LuckybirdUrl ==
    <<"h", "t", "t", "p", "s", ":", "/", "/", "l", "u", "c", "k", "y", "b",
      "i", "r", "d", ".", "i", "o">>

\* Assigning a returned tuple to n names: Python raises ValueError unless
\* the tuple has n values.
Unpack(value, n) == IF Len(value) = n THEN "ok" ELSE "ValueError"

\* luckybird.main (328-356) in the environment env: get_credentials of
\* casino.py (imported at 14-15) is called with the URL alone and its
\* result is assigned to `username, password` (336); then the session is
\* opened and the login action is run by session.fetch (343-356), which
\* returns or raises.
LuckybirdMain ==
    /\ utPc = "idle"
    /\ \E env \in Environments, out \in CallOutcome :
        LET creds == GetCredentials("casino", LuckybirdUrl, FALSE, env)
        IN  /\ utCredIn' = [variant |-> "casino", url |-> LuckybirdUrl,
                            twofa |-> FALSE, env |-> env]
            /\ utCreds' = creds
            /\ utMain' =
                  IF creds.out = "ValueError"
                  THEN [out |-> "ValueError", session |-> FALSE,
                        action |-> FALSE]
                  ELSE IF Unpack(creds.value, 2) = "ValueError"
                  THEN [out |-> "ValueError", session |-> FALSE,
                        action |-> FALSE]
                  ELSE [out |-> IF out = "ok" THEN "returned" ELSE "raised",
                        session |-> TRUE, action |-> out = "ok"]
    /\ utPc' = "main"
    /\ UNCHANGED <<utDelayIn, utDelay>>
    /\ UNCHANGED notUt

NextUtil ==
    \/ DelayCall
    \/ CredentialsCall
    \/ LuckybirdMain

\* Claims about the helpers.

\* C24: gaussian_random_delay returns an integer that is at least 0: the
\* whole milliseconds of the sample when the sample is positive, and 0 when
\* the sample is negative.
C24_DelayNonNegative ==
    utPc = "delay" =>
        LET sample == gauss(utDelayIn.mean, utDelayIn.stddev, utDelayIn.z)
        IN  /\ utDelay \in Nat
            /\ sample < 0 => utDelay = 0
            /\ sample >= 0 =>
                  utDelay * 10 <= sample /\ sample < utDelay * 10 + 10

\* A sample below -1 ms was drawn and the delay is 0.
C24_Witness ==
    /\ utPc = "delay"
    /\ gauss(utDelayIn.mean, utDelayIn.stddev, utDelayIn.z) < 0 - 10
    /\ utDelay = 0

\* urlparse(url).hostname of a netloc: without userinfo and port.
Hostname(netloc) ==
    LET ats == {i \in DOMAIN netloc : netloc[i] = "@"}
        host == IF ats = {} THEN netloc
                ELSE SubSeq(netloc, (CHOOSE i \in ats : \A j \in ats : j <= i) + 1,
                            Len(netloc))
    IN  SubSeq(host, 1, FirstIn(host, {":"}) - 1)

\* The three variables of a prefix.
CredentialNames(prefix) ==
    {<<prefix, n>> : n \in {"_USERNAME", "_PASSWORD", "_2FA"}}

MaxRuns == 3

\* default_picks (256-270): the built-in sites.
default_picks == Sites

\* load_picks (803-825): one Pick per JSON file of the directory.
load_picks(files) == files

\* all_picks = load_picks(); if not all_picks: all_picks = default_picks()
\* (997-999); without --only/--skip filter_picks returns all of them.
picks_to_run(files) ==
    IF load_picks(files) = {} THEN default_picks ELSE load_picks(files)

InitRuns ==
    /\ rnFiles = {}
    /\ rnRuns = <<>>

\* One run of the script: main attempts every pick of the list; the sites
\* whose login is confirmed are finished_picks, the others failed with an
\* exception that main logged. When main returns, save_picks writes one
\* file per finished pick; when an exception leaves main nothing is saved.
ScriptRun ==
    /\ Len(rnRuns) < MaxRuns
    /\ \E finished \in SUBSET picks_to_run(rnFiles), raised \in BOOLEAN :
        /\ rnRuns' = Append(rnRuns, [attempted |-> picks_to_run(rnFiles),
                                     finished |-> finished,
                                     raised |-> raised])
        /\ rnFiles' = IF raised THEN rnFiles ELSE rnFiles \cup finished
    /\ UNCHANGED notRn

NextRuns ==
    \/ ScriptRun

\* C34: across consecutive runs without --only/--skip the set of sites
\* attempted does not shrink: every site attempted in one run is attempted
\* in the next.
C34_AttemptedNeverShrinks ==
    \A i \in 1..(Len(rnRuns) - 1) :
        rnRuns[i].attempted \subseteq rnRuns[i + 1].attempted

\* C37: with LUCKYBIRD_USERNAME and LUCKYBIRD_PASSWORD set, luckybird.main
\* resolves the credentials without error and opens a session; it ends
\* with a ValueError only when the username or the password is missing.
C37_MainOpensSession ==
    utPc = "main" =>
        LET env == utCredIn.env
            complete == Truthy(env["_USERNAME"]) /\ Truthy(env["_PASSWORD"])
        IN  /\ complete => (utMain.out # "ValueError" /\ utMain.session)
            /\ utMain.out = "ValueError" => ~complete

\* ---------------------------------------------------------------------
\* screenshot_action (scrapling_pick.py 273-331): the wrapper around
\* login_page (629) and claim_faucet (682).

\* The currencies of the picks of the run (PICKS, 1007).
Currencies == {"TRX", "LTC"}

\* The pages the wrapper parses after the action: with and without the
\* countdown digits, and with a balance that does or does not parse.
ShotPages ==
    {pg \in Pages :
        /\ pg.wagered = << <<"2", ".", "5">> >>
        /\ pg.target = << <<"1", "0">> >>
        /\ pg.remaining_claims = << <<"3">> >>
        /\ pg.free_spins = << <<"1", "2">> >>}

\* PICKS[currency].update(account_state=account_state) (323): the
\* arguments of the call.
StateOnly(state) ==
    [account_state |-> <<state>>, balance |-> <<>>, wagered |-> <<>>,
     target |-> <<>>, remaining_claims |-> <<>>, free_spins |-> <<>>,
     cooldown_timer |-> <<>>]

FilenameAtClock(call, suffix) ==
    [func_name |-> call.func_name, currency |-> call.currency,
     timestamp |-> shClock, suffix |-> suffix]

\* f"{func_name}_{currency}_{timestamp}_before.png" (314) and
\* f"{func_name}_{currency}_{timestamp}_after.png" (326).
Filename(call, suffix) ==
    [func_name |-> call.func_name, currency |-> call.currency,
     timestamp |-> call.timestamp, suffix |-> suffix]

InitShot ==
    /\ shPc = "idle"
    /\ shCall = [func_name |-> "none", currency |-> "UNK", timestamp |-> 0]
    /\ shClock = 0
    /\ shParsed = <<>>
    /\ shEvents = <<>>
    /\ shPicks = [c \in Currencies |->
                    NewPick(IF c = "TRX" THEN "https://tronpick.io/"
                            ELSE "https://litepick.io/", c)]
    /\ shEnd = "none"

\* The wrapper is called (286): func_name, the currency of the closure
\* and timestamp = int(time.time() * 1000) (294-307).
ShotCall ==
    /\ shPc = "idle"
    /\ \E f \in {"login_page", "claim_faucet"}, c \in Currencies,
          t \in {17000, 17999} :
        /\ shClock' = t
        /\ shCall' = [func_name |-> f, currency |-> c, timestamp |-> t]
    /\ shPc' = "before"
    /\ UNCHANGED <<shParsed, shEvents, shPicks, shEnd>>
    /\ UNCHANGED notSh

\* page.screenshot(path=before_filename) (314-315).
ShotBefore ==
    /\ shPc = "before"
    /\ \E out \in CallOutcome, d \in {1, 700} :
        /\ shClock' = shClock + d
        /\ IF out = "ok"
           THEN /\ shEvents' = Append(shEvents,
                        [kind |-> "before",
                         file |-> <<Filename(shCall, "before")>>])
                /\ shPc' = "action"
                /\ UNCHANGED shEnd
           ELSE /\ shPc' = "done"
                /\ shEnd' = "raised"
                /\ UNCHANGED shEvents
    /\ UNCHANGED <<shCall, shParsed, shPicks>>
    /\ UNCHANGED notSh

\* result = func(page) (318): the action returns or raises.
ShotAction ==
    /\ shPc = "action"
    /\ \E out \in CallOutcome, d \in {1, 700} :
        /\ shClock' = shClock + d
        /\ shEvents' = Append(shEvents,
                [kind |-> IF out = "ok" THEN "action" ELSE "actionRaised",
                 file |-> <<>>])
        /\ IF out = "ok"
           THEN shPc' = "parse" /\ UNCHANGED shEnd
           ELSE shPc' = "done" /\ shEnd' = "raised"
    /\ UNCHANGED <<shCall, shParsed, shPicks>>
    /\ UNCHANGED notSh

\* account_state = parse_account_state_page(page, currency) (321);
\* `if account_state` (322).
ShotParse ==
    /\ shPc = "parse"
    /\ \E pg \in ShotPages, d \in {1, 700} :
        LET parsed == parse_account_state_page(pg)
        IN  /\ shClock' = shClock + d
            /\ shParsed' = parsed.state
            /\ shPc' = IF parsed.state # <<>> THEN "update" ELSE "after"
    /\ shEvents' = Append(shEvents, [kind |-> "parse", file |-> <<>>])
    /\ UNCHANGED <<shCall, shPicks, shEnd>>
    /\ UNCHANGED notSh

\* PICKS[currency].update(account_state=account_state) (323), with
\* datetime.now() read off the clock.
ShotUpdate ==
    /\ shPc = "update"
    /\ shPicks' = [shPicks EXCEPT ![shCall.currency] =
                      Update(@, StateOnly(shParsed[1]),
                             [sec |-> shClock \div 1000,
                              us |-> (shClock % 1000) * 1000])]
    /\ shEvents' = Append(shEvents, [kind |-> "update", file |-> <<>>])
    /\ shPc' = "after"
    /\ UNCHANGED <<shCall, shClock, shParsed, shEnd>>
    /\ UNCHANGED notSh

\* page.screenshot(path=after_filename) (326-327) and return result (329).
ShotAfter ==
    /\ shPc = "after"
    /\ \E out \in CallOutcome :
        IF out = "ok"
        THEN /\ shEvents' = Append(shEvents,
                     [kind |-> "after",
                      file |-> <<Filename(shCall, "after")>>])
             /\ shEnd' = "returned"
        ELSE /\ shEnd' = "raised"
             /\ UNCHANGED shEvents
    /\ shPc' = "done"
    /\ UNCHANGED <<shCall, shClock, shParsed, shPicks>>
    /\ UNCHANGED notSh

NextShot ==
    \/ ShotCall
    \/ ShotBefore
    \/ ShotAction
    \/ ShotParse
    \/ ShotUpdate
    \/ ShotAfter

\* Claims about screenshot_action.

EventKinds == {shEvents[i].kind : i \in DOMAIN shEvents}

EventRank(kind) ==
    CASE kind = "before" -> 1
      [] kind \in {"action", "actionRaised"} -> 2
      [] kind = "parse" -> 3
      [] kind = "update" -> 4
      [] kind = "after" -> 5

\* C38: the events of a wrapped action come in the order before-screenshot,
\* action, account-state parse, Pick update, after-screenshot, none without
\* the ones before it; the Pick update happens exactly when the parse
\* returned a state; the two file names carry the same timestamp; when the
\* action raises there is no Pick update and no after-screenshot.
C38_ScreenshotOrder ==
    /\ \A i, j \in DOMAIN shEvents :
          i < j => EventRank(shEvents[i].kind) < EventRank(shEvents[j].kind)
    /\ \A i \in DOMAIN shEvents : EventRank(shEvents[i].kind) >= i
    /\ shEvents # <<>> => shEvents[1].kind = "before"
    /\ Len(shEvents) >= 2 => shEvents[2].kind \in {"action", "actionRaised"}
    /\ Len(shEvents) >= 3 => shEvents[3].kind = "parse"
    /\ (shPc \in {"after", "done"} /\ "parse" \in EventKinds)
          => ("update" \in EventKinds <=> shParsed # <<>>)
    /\ "update" \notin EventKinds =>
          \A c \in Currencies : shPicks[c].last_update = <<>>
    /\ "update" \in EventKinds =>
          /\ shPicks[shCall.currency].balance = shParsed[1].balance
          /\ shPicks[shCall.currency].last_update # <<>>
          /\ \A c \in Currencies \ {shCall.currency} :
                shPicks[c].last_update = <<>>
    /\ \A i, j \in DOMAIN shEvents :
          (shEvents[i].kind = "before" /\ shEvents[j].kind = "after") =>
              /\ shEvents[i].file[1].timestamp = shEvents[j].file[1].timestamp
              /\ shEvents[i].file[1].func_name = shEvents[j].file[1].func_name
              /\ shEvents[i].file[1].currency = shEvents[j].file[1].currency
              /\ shEvents[i].file[1].suffix = "before"
              /\ shEvents[j].file[1].suffix = "after"
    /\ "actionRaised" \in EventKinds =>
          /\ "update" \notin EventKinds
          /\ "after" \notin EventKinds
          /\ "parse" \notin EventKinds
          /\ shEnd = "raised"

\* A wrapped action returned after all five events, the clock having
\* moved on between the two screenshots.
C38_Witness ==
    /\ shEnd = "returned"
    /\ Len(shEvents) = 5
    /\ shEvents[4].kind = "update"
    /\ shEvents[5].kind = "after"
    /\ shClock > shCall.timestamp
    /\ shPicks[shCall.currency].last_update # <<>>

Init ==
    /\ InitClick
    /\ InitClaim
    /\ InitModals
    /\ InitKeno
    /\ InitMain
    /\ InitLogin
    /\ InitParse
    /\ InitPick
    /\ InitUtil
    /\ InitRuns
    /\ InitShot

SpecClick == Init /\ [][NextClick]_vars

SpecClaim == Init /\ [][NextClaim]_vars

SpecModals == Init /\ [][NextModals]_vars

SpecKeno == Init /\ [][NextKeno]_vars

SpecMain == Init /\ [][NextMain]_vars

SpecLogin == Init /\ [][NextLogin]_vars

SpecParse == Init /\ [][NextParse]_vars

SpecPick == Init /\ [][NextPick]_vars

SpecUtil == Init /\ [][NextUtil]_vars

SpecRuns == Init /\ [][NextRuns]_vars

SpecShot == Init /\ [][NextShot]_vars

====
